---- MODULE Spec2Model ----
(***************************************************************************)
(* Note discovery (NoteDiscoveryService.discoverNotes), the deposit        *)
(* service and the storage provider they share, for one                    *)
(* (publicKey, poolAddress) pair.                                          *)
(*                                                                         *)
(* Hashes and derivations are symbolic, collision-free terms: a derived    *)
(* nullifier or secret is the tuple <<tag, key, depositIndex,              *)
(* changeIndex>>, poseidon1/poseidon2 wrap their arguments, and the        *)
(* decimal and hexadecimal renderings of a field element are distinct      *)
(* tagged terms.  Amounts are integers: the code keeps them as decimal     *)
(* strings and goes through BigInt(..)/toString(), which is exact.         *)
(* Of a note's copied metadata only originTransactionHash is kept          *)
(* (chain ids, block number, timestamp and the destination hash are        *)
(* copied from the activity the same way and read by nothing).             *)
(***************************************************************************)
EXTENDS Integers, Sequences, FiniteSets, TLC

\* Longest activity stream the indexer holds.
MaxLen == 3

\* Largest deposit index DepositService hands out before the model stops it.
MaxGenerated == 2

\* Calls made on one WithdrawalProofGenerator over its life.
MaxCalls == 2

\* Most leaves in a state tree or an approved-set tree.
MaxLeaves == 3

\* Largest depositIndex and changeIndex of a note handed to the context service.
MaxIndex == 2

\* The field modulus, scaled down.
F == 7

\* Largest absolute value of an integer handed to parseUserKey.
MaxKey == 17

\* IndexerClient.maxPendingRequests, scaled down.
maxPendingRequests == 2

\* Most network requests the indexer client makes.
MaxRequests == 5

(***************************************************************************)
(* Optional values (null / undefined / absent field).                      *)
(***************************************************************************)
Null == <<>>
Some(x) == <<x>>

(***************************************************************************)
(* Keys, derivations and hashes.                                           *)
(***************************************************************************)
AccountKey == "k"
OtherKey == "other"

deriveDepositNullifier(key, depositIndex) == <<"DepositNullifierV1", key, depositIndex, 0>>
deriveDepositSecret(key, depositIndex) == <<"DepositSecretV1", key, depositIndex, 0>>
deriveChangeNullifier(key, depositIndex, changeIndex) ==
    <<"ChangeNullifierV1", key, depositIndex, changeIndex>>

poseidon1(a) == <<"poseidon1", a>>
poseidon2(a, b) == <<"poseidon2", a, b>>

\* bigint.toString(): the decimal rendering.
ToDecimalString(v) == <<"dec", v>>
\* `0x${v.toString(16)}`: the hexadecimal rendering.
ToHexString(v) == <<"0x", v>>

\* The precommitment of the deposit at depositIndex, as discovery renders it.
TargetPrecommitment(key, depositIndex) ==
    ToDecimalString(poseidon2(deriveDepositNullifier(key, depositIndex),
                              deriveDepositSecret(key, depositIndex)))

\* The nullifier hash published when a note is spent, as discovery renders it.
NullifierHashOf(nullifier) == ToDecimalString(poseidon1(nullifier))

(***************************************************************************)
(* Activities the indexer may hold.  Fields absent from a variant are      *)
(* Null.                                                                   *)
(***************************************************************************)
DepositActivity(type, tx, key, depositIndex, amount, label) ==
    [type |-> type, originTransactionHash |-> tx,
     precommitmentHash |-> Some(TargetPrecommitment(key, depositIndex)),
     spentNullifier |-> Null, newCommitment |-> Null,
     amount |-> amount, label |-> label]

WithdrawalActivity(type, tx, nullifier, amount, newCommitment) ==
    [type |-> type, originTransactionHash |-> tx,
     precommitmentHash |-> Null,
     spentNullifier |-> Some(NullifierHashOf(nullifier)),
     newCommitment |-> newCommitment,
     amount |-> amount, label |-> Null]

\* An activated deposit of 2 at index 0.
D0 == DepositActivity("DEPOSIT", "tD0", AccountKey, 0, Some(2), Some(100))
\* The same deposit while still pending: no amount, no label.
P0 == DepositActivity("CROSSCHAIN_DEPOSIT", "tP0", AccountKey, 0, Null, Null)
\* An activated cross-chain deposit of 2 at index 1.
D1 == DepositActivity("CROSSCHAIN_DEPOSIT", "tD1", AccountKey, 1, Some(2), Some(101))
\* Somebody else's deposit.
F0 == DepositActivity("DEPOSIT", "tF0", OtherKey, 0, Some(2), Some(102))
\* Withdrawals spending the deposit note of chain 0: 1 of it, or all of it.
W0a == WithdrawalActivity("WITHDRAWAL", "tW0a",
                          deriveDepositNullifier(AccountKey, 0), Some(1), Some("c"))
W0b == WithdrawalActivity("CROSSCHAIN_WITHDRAWAL", "tW0b",
                          deriveDepositNullifier(AccountKey, 0), Some(2), Some("c"))
\* A withdrawal of 1 spending the first change note of chain 0.
W0c == WithdrawalActivity("WITHDRAWAL", "tW0c",
                          deriveChangeNullifier(AccountKey, 0, 1), Some(1), Some("c"))
\* A full withdrawal of chain 0's deposit note that carries no new commitment.
W0n == WithdrawalActivity("WITHDRAWAL", "tW0n",
                          deriveDepositNullifier(AccountKey, 0), Some(2), Null)

ActivityUniverse == {D0, P0, D1, F0, W0a, W0b, W0c, W0n}

IsInjective(s) == \A i, j \in DOMAIN s : s[i] = s[j] => i = j

\* Every event occurs once in a stream; events may share a precommitment or a
\* spent nullifier.
Streams ==
    UNION {{s \in [1..n -> ActivityUniverse] : IsInjective(s)} : n \in 0..MaxLen}

(***************************************************************************)
(* JavaScript truthiness of the optional fields the code tests.            *)
(***************************************************************************)
\* bigint | null: null and 0n are falsy.
TruthyAmount(a) == a # Null /\ a[1] # 0
\* string | null | undefined: absent is falsy (no empty strings occur).
TruthyString(s) == s # Null

IsDepositType(a) == a.type = "DEPOSIT" \/ a.type = "CROSSCHAIN_DEPOSIT"
IsWithdrawalType(a) == a.type = "WITHDRAWAL" \/ a.type = "CROSSCHAIN_WITHDRAWAL"

\* Mutant of FindDeposit: only the deposit index inside the precommitment is
\* compared, not the key it was derived from.
FindDepositAnyKey(acts, target) ==
    LET hits == {i \in DOMAIN acts :
                    /\ IsDepositType(acts[i])
                    /\ acts[i].precommitmentHash # Null
                    /\ acts[i].precommitmentHash[1][2][2][3] = target[2][2][3]}
    IN IF hits = {} THEN 0 ELSE CHOOSE i \in hits : \A j \in hits : i <= j

\* Array.prototype.findIndex, 1-based; 0 when nothing matches.
FindDeposit(acts, target) ==
    LET hits == {i \in DOMAIN acts :
                    IsDepositType(acts[i]) /\ acts[i].precommitmentHash = Some(target)}
    IN IF hits = {} THEN 0 ELSE CHOOSE i \in hits : \A j \in hits : i <= j

FindWithdrawal(acts, nullifierHash) ==
    LET hits == {i \in DOMAIN acts :
                    IsWithdrawalType(acts[i]) /\ acts[i].spentNullifier = Some(nullifierHash)}
    IN IF hits = {} THEN 0 ELSE CHOOSE i \in hits : \A j \in hits : i <= j

(***************************************************************************)
(* Notes and chains.  A note's amount is a decimal string: Some(n).        *)
(***************************************************************************)
\* BigInt(note.amount)
BigIntOf(amountString) == amountString[1]

Last(chain) == chain[Len(chain)]

\* Mutant of SpendTail: the tail a withdrawal spends keeps its status.
SpendTailKeepsStatus(chain) == chain

\* chain[chain.length - 1].status = 'spent'
SpendTail(chain) == [chain EXCEPT ![Len(chain)].status = "spent"]

\* The while loop of extendChainInPlace, one iteration per unfolding.
RECURSIVE ExtendLoop(_, _, _, _, _, _)
ExtendLoop(chain, pageActivities, remaining, changeIndex, currentNullifier, withdrawalsMatched) ==
    LET nullifierHash == NullifierHashOf(currentNullifier)
        at == FindWithdrawal(pageActivities, nullifierHash)
    IN IF at = 0
          \/ ~TruthyString(pageActivities[at].newCommitment)
          \/ ~TruthyAmount(pageActivities[at].amount)
       THEN [chain |-> chain, withdrawalsMatched |-> withdrawalsMatched]
       ELSE LET withdrawal == pageActivities[at]
                spent == SpendTail(chain)
                left == remaining - withdrawal.amount[1]
                changeNote ==
                    [depositIndex |-> chain[1].depositIndex,
                     changeIndex |-> changeIndex,
                     noteType |-> "change",
                     amount |-> Some(left),
                     originTransactionHash |-> withdrawal.originTransactionHash,
                     status |-> IF left > 0 THEN "unspent" ELSE "spent",
                     isActivated |-> TRUE,
                     label |-> chain[1].label]
                extended == Append(spent, changeNote)
            IN IF left <= 0
               THEN [chain |-> extended, withdrawalsMatched |-> withdrawalsMatched + 1]
               ELSE ExtendLoop(extended, pageActivities, left, changeIndex + 1,
                               deriveChangeNullifier(AccountKey, chain[1].depositIndex, changeIndex),
                               withdrawalsMatched + 1)

\* Mutant of NextChangeIndex: a change-note tail hands its own index on.
NextChangeIndexStale(lastNote) ==
    IF lastNote.changeIndex = 0 THEN 1 ELSE lastNote.changeIndex

\* The change index given to the first note appended after lastNote.
NextChangeIndex(lastNote) ==
    IF lastNote.changeIndex = 0 THEN 1 ELSE lastNote.changeIndex + 1

\* The nullifier whose hash spends lastNote.
TailNullifier(chain) ==
    IF Last(chain).changeIndex = 0
    THEN deriveDepositNullifier(AccountKey, chain[1].depositIndex)
    ELSE deriveChangeNullifier(AccountKey, chain[1].depositIndex, Last(chain).changeIndex)

\* extendChainInPlace: the chain after the call and the number of withdrawals
\* matched.
extendChainInPlace(chain, pageActivities) ==
    IF Last(chain).amount = Null
    THEN [chain |-> chain, withdrawalsMatched |-> 0]
    ELSE ExtendLoop(chain, pageActivities, BigIntOf(Last(chain).amount),
                    NextChangeIndex(Last(chain)), TailNullifier(chain), 0)

\* The label of a deposit note: the activity's, or "Pending Deposit #<i>".
DepositLabel(depositActivity, depositIndex) ==
    IF TruthyString(depositActivity.label)
    THEN <<"label", depositActivity.label[1]>>
    ELSE <<"Pending Deposit #", depositIndex>>

\* buildChainForDepositInPage
buildChainForDepositInPage(depositActivity, depositIndex, pageActivitiesAfter) ==
    LET depositNote ==
            [depositIndex |-> depositIndex,
             changeIndex |-> 0,
             noteType |-> "deposit",
             amount |-> IF TruthyAmount(depositActivity.amount)
                        THEN Some(depositActivity.amount[1]) ELSE Some(0),
             originTransactionHash |-> depositActivity.originTransactionHash,
             status |-> "unspent",
             isActivated |-> depositActivity.label # Null,
             label |-> DepositLabel(depositActivity, depositIndex)]
    IN extendChainInPlace(<<depositNote>>, pageActivitiesAfter).chain

\* Mutant of IsLiveTail: every activated tail is live, spent or not.
IsLiveTailActivated(last) == last.isActivated

\* The test that makes a chain a live deposit (the same at load and at match).
IsLiveTail(last) ==
    /\ last.status = "unspent"
    /\ TruthyString(last.amount)
    /\ BigIntOf(last.amount) > 0
    /\ last.isActivated

\* Mutant of LiveEntry: chainIndex counts from 1.
LiveEntryOneBased(chain, chainIndex) ==
    [depositIndex |-> chain[1].depositIndex,
     chainIndex |-> chainIndex + 1,
     remaining |-> chain[Len(chain)].amount[1]]

LiveEntry(chain, chainIndex) ==
    [depositIndex |-> chain[1].depositIndex,
     chainIndex |-> chainIndex,
     remaining |-> BigIntOf(Last(chain).amount)]

\* Mutant of LiveFromCache: liveDeposits is not rebuilt from the cache.
LiveFromCacheNone(chains, n) == <<>>

\* liveDeposits built from the cached chains; chainIndex is 0-based as in the
\* code.
RECURSIVE LiveFromCache(_, _)
LiveFromCache(chains, n) ==
    IF n = 0 THEN <<>>
    ELSE LET rest == LiveFromCache(chains, n - 1)
         IN IF IsLiveTail(Last(chains[n]))
            THEN Append(rest, LiveEntry(chains[n], n - 1))
            ELSE rest

SameLive(a, b) == a.depositIndex = b.depositIndex /\ a.chainIndex = b.chainIndex

\* Step 1 of the page: every live deposit of the snapshot `todo` is extended
\* with the page's activities and liveDeposits is reconciled.
RECURSIVE ExtendLive(_, _, _, _)
ExtendLive(todo, chains, live, pageActivities) ==
    IF todo = <<>> THEN [notes |-> chains, liveDeposits |-> live]
    ELSE LET liveDeposit == Head(todo)
             at == liveDeposit.chainIndex + 1
         IN IF at \notin DOMAIN chains
            THEN ExtendLive(Tail(todo), chains, live, pageActivities)
            ELSE LET r == extendChainInPlace(chains[at], pageActivities)
                     lastNote == Last(r.chain)
                     chains2 == [chains EXCEPT ![at] = r.chain]
                     Keep(d) == ~SameLive(d, liveDeposit)
                     live2 ==
                        IF r.withdrawalsMatched = 0 THEN live
                        ELSE IF \/ lastNote.status = "spent"
                                \/ ~TruthyString(lastNote.amount)
                                \/ BigIntOf(lastNote.amount) <= 0
                             THEN SelectSeq(live, Keep)
                             ELSE [i \in DOMAIN live |->
                                      IF SameLive(live[i], liveDeposit)
                                      THEN [live[i] EXCEPT !.remaining = BigIntOf(lastNote.amount)]
                                      ELSE live[i]]
                 IN ExtendLive(Tail(todo), chains2, live2, pageActivities)

\* Mutant of MathMax: the index reached so far is kept.
MathMaxKeepsFirst(a, b) == a

\* Math.max
MathMax(a, b) == IF a >= b THEN a ELSE b

\* One iteration of the deposit scan after its abort check: the candidate is
\* looked up in the whole page; on a match the chain is built from the
\* activities after the deposit and the scan goes on.
ScanStep(st, pageActivities) ==
    LET candidateDepositIndex == st.nextDepositIndex
        depositPosition ==
            FindDeposit(pageActivities, TargetPrecommitment(AccountKey, candidateDepositIndex))
    IN IF depositPosition = 0 THEN [st EXCEPT !.found = FALSE]
       ELSE LET activitiesAfter ==
                    SubSeq(pageActivities, depositPosition + 1, Len(pageActivities))
                newChain ==
                    buildChainForDepositInPage(pageActivities[depositPosition],
                                               candidateDepositIndex, activitiesAfter)
                newChainIndex == Len(st.notes)
            IN [found |-> TRUE,
                notes |-> Append(st.notes, newChain),
                liveDeposits |->
                    IF IsLiveTail(Last(newChain))
                    THEN Append(st.liveDeposits, LiveEntry(newChain, newChainIndex))
                    ELSE st.liveDeposits,
                depositsMatched |-> st.depositsMatched + 1,
                lastUsedIndex |-> MathMax(st.lastUsedIndex, candidateDepositIndex),
                nextDepositIndex |-> candidateDepositIndex + 1]

RECURSIVE ScanLoop(_, _)
ScanLoop(st, pageActivities) ==
    LET next == ScanStep(st, pageActivities)
    IN IF next.found THEN ScanLoop(next, pageActivities) ELSE next

\* Steps 1 and 2 of one page, run without interruption.
ProcessPage(st, pageActivities) ==
    LET e == ExtendLive(st.liveDeposits, st.notes, st.liveDeposits, pageActivities)
    IN ScanLoop([st EXCEPT !.notes = e.notes, !.liveDeposits = e.liveDeposits],
                pageActivities)

(***************************************************************************)
(* The storage provider (INoteStorageProvider / IDepositStorageProvider):  *)
(* one checkpoint (notes, lastUsedDepositIndex, lastProcessedCursor) per   *)
(* (publicKey, poolAddress).  A stored checkpoint is a serialized copy.    *)
(***************************************************************************)
EmptyCheckpoint ==
    [notes |-> <<>>, lastUsedDepositIndex |-> -1, lastProcessedCursor |-> Null]

Max(a, b) == IF a >= b THEN a ELSE b

\* The highest depositIndex among the chains, or `floor` if that is higher.
RECURSIVE HighestDepositIndex(_, _)
HighestDepositIndex(chains, floor) ==
    IF chains = <<>> THEN floor
    ELSE HighestDepositIndex(Tail(chains), Max(floor, Head(chains)[1].depositIndex))

\* getCachedNotes: the checkpoint as a DiscoveryResult.  An absent cache and
\* the empty checkpoint read the same (?? -1, [], || undefined).
getCachedNotes(checkpoint) ==
    [notes |-> checkpoint.notes,
     lastUsedIndex |-> checkpoint.lastUsedDepositIndex,
     lastProcessedCursor |-> checkpoint.lastProcessedCursor]

\* storeDiscoveredNotes: the call carries notes and cursor only; the
\* checkpoint's lastUsedDepositIndex is the highest deposit index known and
\* grows forward only.
storeDiscoveredNotes(checkpoint, chains, lastProcessedCursor) ==
    [notes |-> chains,
     lastUsedDepositIndex |-> HighestDepositIndex(chains, checkpoint.lastUsedDepositIndex),
     lastProcessedCursor |-> lastProcessedCursor]

getNextDepositIndex(checkpoint) == checkpoint.lastUsedDepositIndex + 1

updateLastUsedDepositIndex(checkpoint, depositIndex) ==
    [checkpoint EXCEPT !.lastUsedDepositIndex = Max(@, depositIndex)]

VARIABLES
    stream,           \* the indexer's activities for the pool, in block order
    stored,           \* the storage provider's checkpoint
    commitment,       \* the last DepositCommitmentResult handed out, or Null
    pc,               \* where the discoverNotes call stands
    signalAborted,    \* options.signal.aborted
    maxPages,         \* options.maxPages (0: absent or 0)
    notes, lastUsedIndex, nextDepositIndex, liveDeposits,
    cursor, hasNext, pagesProcessed,
    activities,       \* the page being processed
    depositsMatched,  \* progress.depositsMatched
    runStart,         \* history: the checkpoint the run loaded
    shadow,           \* history: the run that is never interrupted (see ShadowStep)
    recorded,         \* history: indices passed to updateDepositIndex
    runRecorded,      \* history: `recorded` when the run loaded its checkpoint
    circuitFileLoader,            \* WithdrawalProofGenerator: a loader was given
    crosschainCircuitFileLoader,  \* ... and one for the cross-chain circuit
    circuitFiles,                 \* this.circuitFiles (Null until loaded)
    crosschainCircuitFiles,       \* this.crosschainCircuitFiles
    loaderCalls,      \* history: how often each loader was invoked
    calls,            \* the calls made on the generator, each with its locals
    contextCall,      \* the withdrawal-context calculation: its inputs and result
    derivationCall,   \* a derivation of the six note secrets: its inputs and result
    parseCall,        \* a parseUserKey call: its input and result
    requestMap,       \* IndexerClient.requestMap, in insertion order
    requests,         \* the network requests the client made, each with its state
    lastCall,         \* history: what the last executeQuery call met and got
    resetFrom,        \* history: the notes and lastUsedIndex stored when the cursor was reset
    depositCall       \* history: the last generateDepositCommitment call and its provider calls

\* The proof generator and the context service.
genVars == <<circuitFileLoader, crosschainCircuitFileLoader, circuitFiles,
             crosschainCircuitFiles, loaderCalls, calls, contextCall>>

\* The discovery engine, the deposit service and their storage.
discoveryVars == <<stream, stored, commitment, pc, signalAborted, maxPages, notes,
                   lastUsedIndex, nextDepositIndex, liveDeposits, cursor, hasNext,
                   pagesProcessed, activities, depositsMatched, runStart, shadow,
                   recorded, runRecorded>>

\* The derivations, the key parser and the indexer client.
dataVars == <<derivationCall, parseCall, requestMap, requests, lastCall, resetFrom,
              depositCall>>

vars == <<discoveryVars, genVars, dataVars>>

runVars == <<notes, lastUsedIndex, nextDepositIndex, liveDeposits, cursor,
             hasNext, pagesProcessed, activities, depositsMatched>>

(***************************************************************************)
(* The activity fetcher: the cursor is the offset of the next activity;    *)
(* a page holds any positive number of the activities left, or none when   *)
(* none is left.                                                           *)
(***************************************************************************)
OffsetOf(c) == IF c = Null THEN 0 ELSE c[1]

PageSizes(offset) ==
    IF offset >= Len(stream) THEN {0} ELSE 1..(Len(stream) - offset)

(***************************************************************************)
(* discoverNotes, cut at its suspension points.                            *)
(*   loading   awaiting getCachedNotes (line 108)                          *)
(*   fetching  awaiting fetchActivities (line 139)                         *)
(*   scan      at the top of the deposit scan (line 178)                   *)
(*   scanMatch past the abort check, observer called (line 186)            *)
(*   storing   awaiting storeDiscoveredNotes (line 225)                    *)
(*   done / cancelled / failed: returned, raised AbortError, raised a      *)
(*   collaborator's failure                                                *)
(***************************************************************************)
Ended == {"idle", "done", "cancelled", "failed"}

MaxPagesOptions == {0, 2}

\* Mutant of LoadedState: the scan restarts at deposit index 0.
LoadedStateFromZero(cached) ==
    [found |-> FALSE,
     notes |-> cached.notes,
     liveDeposits |-> LiveFromCache(cached.notes, Len(cached.notes)),
     depositsMatched |-> 0,
     lastUsedIndex |-> cached.lastUsedIndex,
     nextDepositIndex |-> 0]

\* The in-memory state a run starts from, given what getCachedNotes returned.
LoadedState(cached) ==
    [found |-> FALSE,
     notes |-> cached.notes,
     liveDeposits |-> LiveFromCache(cached.notes, Len(cached.notes)),
     depositsMatched |-> 0,
     lastUsedIndex |-> cached.lastUsedIndex,
     nextDepositIndex |-> cached.lastUsedIndex + 1]

\* The uninterrupted run: the in-memory state and cursor of a run that
\* processed every checkpointed page without ever reloading.
ShadowOf(st, c) ==
    [notes |-> st.notes, liveDeposits |-> st.liveDeposits,
     lastUsedIndex |-> st.lastUsedIndex, nextDepositIndex |-> st.nextDepositIndex,
     cursor |-> c]

ShadowStep(sh, pageActivities, endCursor) ==
    ShadowOf(ProcessPage([found |-> FALSE, notes |-> sh.notes,
                          liveDeposits |-> sh.liveDeposits, depositsMatched |-> 0,
                          lastUsedIndex |-> sh.lastUsedIndex,
                          nextDepositIndex |-> sh.nextDepositIndex],
                         pageActivities),
             endCursor)

CurrentState ==
    [found |-> FALSE, notes |-> notes, liveDeposits |-> liveDeposits,
     depositsMatched |-> depositsMatched, lastUsedIndex |-> lastUsedIndex,
     nextDepositIndex |-> nextDepositIndex]

\* A generator on which no call is made, and no context calculation.
IdleCall ==
    [op |-> "none", pc |-> "idle", args |-> Null, circuitFiles |-> Null,
     circuitInputs |-> Null, proofData |-> Null, verifierArg |-> Null,
     verdict |-> "none", error |-> "none", result |-> Null,
     proverCalls |-> 0, verifierCalls |-> 0]

Calls == 1..MaxCalls

GeneratorIdle ==
    /\ circuitFiles = Null
    /\ crosschainCircuitFiles = Null
    /\ loaderCalls = [withdrawal |-> 0, crosschain |-> 0]
    /\ calls = [c \in Calls |-> IdleCall]

GeneratorUnused ==
    /\ circuitFileLoader = FALSE
    /\ crosschainCircuitFileLoader = FALSE
    /\ GeneratorIdle
    /\ contextCall = Null

\* An indexer client as constructed: nothing requested.
ClientIdle ==
    /\ requestMap = <<>>
    /\ requests = <<>>
    /\ lastCall = Null

\* No derivation, no key parsed, no query made.
DataUnused ==
    /\ derivationCall = Null
    /\ parseCall = Null
    /\ ClientIdle
    /\ resetFrom = Null
    /\ depositCall = Null

\* The discovery engine before its first call, on an empty store.
DiscoveryIdle ==
    /\ stored = EmptyCheckpoint
    /\ commitment = Null
    /\ pc = "idle"
    /\ signalAborted = FALSE
    /\ maxPages = 0
    /\ notes = <<>>
    /\ lastUsedIndex = -1
    /\ nextDepositIndex = 0
    /\ liveDeposits = <<>>
    /\ cursor = Null
    /\ hasNext = TRUE
    /\ pagesProcessed = 0
    /\ activities = <<>>
    /\ depositsMatched = 0
    /\ runStart = EmptyCheckpoint
    /\ shadow = ShadowOf(LoadedState(getCachedNotes(EmptyCheckpoint)), Null)
    /\ recorded = {}
    /\ runRecorded = {}

Init ==
    /\ stream \in Streams
    /\ DiscoveryIdle
    /\ GeneratorUnused
    /\ DataUnused

\* A call of discoverNotes: options are taken, progress is initialised and
\* getCachedNotes is awaited.
Start ==
    /\ pc \in Ended
    /\ pc' = "loading"
    /\ maxPages' \in MaxPagesOptions
    /\ signalAborted' = FALSE
    /\ notes' = <<>>
    /\ lastUsedIndex' = -1
    /\ nextDepositIndex' = 0
    /\ liveDeposits' = <<>>
    /\ cursor' = Null
    /\ hasNext' = TRUE
    /\ pagesProcessed' = 0
    /\ activities' = <<>>
    /\ depositsMatched' = 0
    /\ UNCHANGED <<dataVars, genVars, stream, stored, commitment, runStart, shadow, recorded, runRecorded>>

\* The caller aborts the signal while the run is suspended: in a fetch, a
\* storage call, or the observer called inside the deposit scan.
Abort ==
    /\ pc \in {"loading", "fetching", "scanMatch", "storing"}
    /\ ~signalAborted
    /\ signalAborted' = TRUE
    /\ UNCHANGED <<dataVars, genVars, stream, stored, commitment, pc, maxPages, runVars, runStart,
                   shadow, recorded, runRecorded>>

\* getCachedNotes returns (lines 108-137).
Load ==
    /\ pc = "loading"
    /\ LET st == LoadedState(getCachedNotes(stored))
       IN /\ notes' = st.notes
          /\ lastUsedIndex' = st.lastUsedIndex
          /\ nextDepositIndex' = st.nextDepositIndex
          /\ liveDeposits' = st.liveDeposits
    /\ cursor' = getCachedNotes(stored).lastProcessedCursor
    /\ hasNext' = TRUE
    /\ pagesProcessed' = 0
    /\ pc' = IF signalAborted THEN "cancelled" ELSE "fetching"
    /\ runStart' = stored
    /\ runRecorded' = recorded
    /\ UNCHANGED <<dataVars, genVars, stream, stored, commitment, signalAborted, maxPages, activities,
                   depositsMatched, shadow, recorded>>

\* getCachedNotes fails.
LoadFail ==
    /\ pc = "loading"
    /\ pc' = "failed"
    /\ UNCHANGED <<dataVars, genVars, stream, stored, commitment, signalAborted, maxPages, runVars,
                   runStart, shadow, recorded, runRecorded>>

\* Mutant of FetchOK: the cursor is checkpointed as soon as the page arrives.
FetchOKEagerCursor ==
    /\ pc = "fetching"
    /\ \E n \in PageSizes(OffsetOf(cursor)) :
        LET offset == OffsetOf(cursor)
            items == SubSeq(stream, offset + 1, offset + n)
            e == ExtendLive(liveDeposits, notes, liveDeposits, items)
        IN /\ activities' = items
           /\ cursor' = Some(offset + n)
           /\ notes' = e.notes
           /\ liveDeposits' = e.liveDeposits
           /\ stored' = [stored EXCEPT !.lastProcessedCursor = Some(offset + n)]
    /\ pagesProcessed' = pagesProcessed + 1
    /\ pc' = "scan"
    /\ UNCHANGED <<dataVars, genVars, stream, commitment, signalAborted, maxPages, lastUsedIndex,
                   nextDepositIndex, hasNext, depositsMatched, runStart, shadow,
                   recorded, runRecorded>>

\* Mutant of FetchOK: the chains of the checkpoint are the arrays the run
\* extends in place.
FetchOKAliased ==
    /\ pc = "fetching"
    /\ \E n \in PageSizes(OffsetOf(cursor)) :
        LET offset == OffsetOf(cursor)
            items == SubSeq(stream, offset + 1, offset + n)
            e == ExtendLive(liveDeposits, notes, liveDeposits, items)
        IN /\ activities' = items
           /\ cursor' = Some(offset + n)
           /\ notes' = e.notes
           /\ liveDeposits' = e.liveDeposits
           /\ stored' = [stored EXCEPT !.notes = SubSeq(e.notes, 1, Len(stored.notes))]
    /\ pagesProcessed' = pagesProcessed + 1
    /\ pc' = "scan"
    /\ UNCHANGED <<dataVars, genVars, stream, commitment, signalAborted, maxPages, lastUsedIndex,
                   nextDepositIndex, hasNext, depositsMatched, runStart, shadow,
                   recorded, runRecorded>>

\* fetchActivities returns a page; the live deposits are extended with it
\* (lines 139-174).
FetchOK ==
    /\ pc = "fetching"
    /\ \E n \in PageSizes(OffsetOf(cursor)) :
        LET offset == OffsetOf(cursor)
            items == SubSeq(stream, offset + 1, offset + n)
            e == ExtendLive(liveDeposits, notes, liveDeposits, items)
        IN /\ activities' = items
           /\ cursor' = Some(offset + n)
           /\ notes' = e.notes
           /\ liveDeposits' = e.liveDeposits
    /\ pagesProcessed' = pagesProcessed + 1
    /\ pc' = "scan"
    /\ UNCHANGED <<dataVars, genVars, stream, stored, commitment, signalAborted, maxPages, lastUsedIndex,
                   nextDepositIndex, hasNext, depositsMatched, runStart, shadow,
                   recorded, runRecorded>>

\* fetchActivities finds no activity after the cursor and returns the empty
\* page without endCursor, as the type of pageInfo allows (lines 139-174).
FetchOKNoEndCursor ==
    /\ pc = "fetching"
    /\ OffsetOf(cursor) >= Len(stream)
    /\ LET e == ExtendLive(liveDeposits, notes, liveDeposits, <<>>)
       IN /\ activities' = <<>>
          /\ cursor' = Null
          /\ notes' = e.notes
          /\ liveDeposits' = e.liveDeposits
    /\ pagesProcessed' = pagesProcessed + 1
    /\ pc' = "scan"
    /\ UNCHANGED <<dataVars, genVars, stream, stored, commitment, signalAborted, maxPages, lastUsedIndex,
                   nextDepositIndex, hasNext, depositsMatched, runStart, shadow,
                   recorded, runRecorded>>

\* fetchActivities fails.
FetchFail ==
    /\ pc = "fetching"
    /\ pc' = "failed"
    /\ UNCHANGED <<dataVars, genVars, stream, stored, commitment, signalAborted, maxPages, runVars,
                   runStart, shadow, recorded, runRecorded>>

\* The abort check at the top of the deposit scan (line 178).
ScanCheck ==
    /\ pc = "scan"
    /\ pc' = IF signalAborted THEN "cancelled" ELSE "scanMatch"
    /\ UNCHANGED <<dataVars, genVars, stream, stored, commitment, signalAborted, maxPages, runVars,
                   runStart, shadow, recorded, runRecorded>>

\* Mutant of ScanMatch: the scan that finds nothing goes on to the next fetch
\* without the checkpoint write.
ScanMatchSkipsStore ==
    /\ pc = "scanMatch"
    /\ LET st == ScanStep(CurrentState, activities)
       IN /\ notes' = st.notes
          /\ liveDeposits' = st.liveDeposits
          /\ depositsMatched' = st.depositsMatched
          /\ lastUsedIndex' = st.lastUsedIndex
          /\ nextDepositIndex' = st.nextDepositIndex
          /\ pc' = IF st.found THEN "scan" ELSE "fetching"
    /\ UNCHANGED <<dataVars, genVars, stream, stored, commitment, signalAborted, maxPages, cursor,
                   hasNext, pagesProcessed, activities, runStart, shadow, recorded,
                   runRecorded>>

\* The rest of a scan iteration (lines 180-221): a match adds a chain and
\* loops; no match leaves the scan and calls storeDiscoveredNotes.
ScanMatch ==
    /\ pc = "scanMatch"
    /\ LET st == ScanStep(CurrentState, activities)
       IN /\ notes' = st.notes
          /\ liveDeposits' = st.liveDeposits
          /\ depositsMatched' = st.depositsMatched
          /\ lastUsedIndex' = st.lastUsedIndex
          /\ nextDepositIndex' = st.nextDepositIndex
          /\ pc' = IF st.found THEN "scan" ELSE "storing"
    /\ UNCHANGED <<dataVars, genVars, stream, stored, commitment, signalAborted, maxPages, cursor,
                   hasNext, pagesProcessed, activities, runStart, shadow, recorded,
                   runRecorded>>

\* pageInfo.hasNextPage of the page just fetched; a page without endCursor
\* is an empty page at the end of the stream.
PageHasNext == cursor # Null /\ OffsetOf(cursor) < Len(stream)

\* Mutant of AfterStore: hasNextPage is not looked at.
AfterStoreIgnoresHasNext ==
    IF ~(maxPages = 0 \/ pagesProcessed < maxPages) THEN "done"
    ELSE IF signalAborted THEN "cancelled"
    ELSE "fetching"

\* Where the run goes once the page is stored (lines 227-244 and 136-137).
AfterStore ==
    IF ~PageHasNext THEN "done"
    ELSE IF ~(maxPages = 0 \/ pagesProcessed < maxPages) THEN "done"
    ELSE IF signalAborted THEN "cancelled"
    ELSE "fetching"

\* storeDiscoveredNotes returns (lines 225-234).
StoreOK ==
    /\ pc = "storing"
    /\ stored' = storeDiscoveredNotes(stored, notes, cursor)
    /\ hasNext' = PageHasNext
    /\ pc' = AfterStore
    /\ shadow' = ShadowStep(shadow, activities, cursor)
    /\ UNCHANGED <<dataVars, genVars, stream, commitment, signalAborted, maxPages, notes, lastUsedIndex,
                   nextDepositIndex, liveDeposits, cursor, pagesProcessed, activities,
                   depositsMatched, runStart, recorded, runRecorded>>

\* storeDiscoveredNotes fails: nothing is written.
StoreFail ==
    /\ pc = "storing"
    /\ pc' = "failed"
    /\ UNCHANGED <<dataVars, genVars, stream, stored, commitment, signalAborted, maxPages, runVars,
                   runStart, shadow, recorded, runRecorded>>

(***************************************************************************)
(* DepositService, on the same storage provider.                           *)
(***************************************************************************)
\* Mutant of generateDepositCommitment: options.depositIndex is tested with ||.
generateDepositCommitmentFalsyIndex(checkpoint, optionsDepositIndex) ==
    LET depositIndex ==
            IF optionsDepositIndex # Null /\ optionsDepositIndex[1] # 0
            THEN optionsDepositIndex[1]
            ELSE getNextDepositIndex(checkpoint)
        depositNullifier == deriveDepositNullifier(AccountKey, depositIndex)
        depositSecret == deriveDepositSecret(AccountKey, depositIndex)
    IN [precommitment |-> ToHexString(poseidon2(depositNullifier, depositSecret)),
        depositIndex |-> depositIndex,
        nullifier |-> depositNullifier,
        secret |-> depositSecret]

\* generateDepositCommitment(accountKey, publicKey, poolAddress, options):
\* options.depositIndex when given, else the provider's next index.
generateDepositCommitment(checkpoint, optionsDepositIndex) ==
    LET depositIndex ==
            IF optionsDepositIndex # Null THEN optionsDepositIndex[1]
            ELSE getNextDepositIndex(checkpoint)
        depositNullifier == deriveDepositNullifier(AccountKey, depositIndex)
        depositSecret == deriveDepositSecret(AccountKey, depositIndex)
    IN [precommitment |-> ToHexString(poseidon2(depositNullifier, depositSecret)),
        depositIndex |-> depositIndex,
        nullifier |-> depositNullifier,
        secret |-> depositSecret]

GenerateDepositCommitment ==
    /\ \E optionsDepositIndex \in {Null} \cup {Some(i) : i \in 0..MaxGenerated} :
        LET result == generateDepositCommitment(stored, optionsDepositIndex)
        IN /\ result.depositIndex <= MaxGenerated
           /\ commitment' = Some(result)
    /\ UNCHANGED <<dataVars, genVars, stream, stored, pc, signalAborted, maxPages, runVars, runStart,
                   shadow, recorded, runRecorded>>

\* The getNextDepositIndex calls of one generateDepositCommitment call: the
\* right-hand side of ?? is evaluated when options.depositIndex is absent.
ProviderCalls(optionsDepositIndex) == IF optionsDepositIndex # Null THEN 0 ELSE 1

\* generateDepositCommitment, with the call recorded.
GenerateDepositCommitmentCall ==
    /\ \E optionsDepositIndex \in {Null} \cup {Some(i) : i \in 0..MaxGenerated} :
        LET result == generateDepositCommitment(stored, optionsDepositIndex)
        IN /\ result.depositIndex <= MaxGenerated
           /\ commitment' = Some(result)
           /\ depositCall' = Some([options |-> optionsDepositIndex,
                                   providerCalls |-> ProviderCalls(optionsDepositIndex),
                                   recorded |-> recorded])
    /\ UNCHANGED <<derivationCall, parseCall, requestMap, requests, lastCall, resetFrom,
                   genVars, stream, stored, pc, signalAborted, maxPages, runVars, runStart,
                   shadow, recorded, runRecorded>>

\* updateDepositIndex(publicKey, poolAddress, result.depositIndex), called
\* after the deposit transaction of the last commitment was confirmed.
UpdateDepositIndex ==
    /\ commitment # Null
    /\ stored' = updateLastUsedDepositIndex(stored, commitment[1].depositIndex)
    /\ recorded' = recorded \cup {commitment[1].depositIndex}
    /\ UNCHANGED <<dataVars, genVars, stream, commitment, pc, signalAborted, maxPages, runVars, runStart,
                   shadow, runRecorded>>

Next ==
    \/ Start
    \/ Abort
    \/ Load
    \/ LoadFail
    \/ FetchOK
    \/ FetchFail
    \/ ScanCheck
    \/ ScanMatch
    \/ StoreOK
    \/ StoreFail

Spec == Init /\ [][Next]_vars

\* Discovery in which no call passes maxPages: a run stops before the end
\* of the stream only by cancellation or failure.
StartUnlimited == Start /\ maxPages' = 0

NextUnlimited ==
    \/ StartUnlimited
    \/ Abort
    \/ Load
    \/ LoadFail
    \/ FetchOK
    \/ FetchFail
    \/ ScanCheck
    \/ ScanMatch
    \/ StoreOK
    \/ StoreFail

SpecUnlimited == Init /\ [][NextUnlimited]_vars

\* Discovery with a fetcher that may leave endCursor out of an empty page.
NextCursor ==
    \/ StartUnlimited
    \/ Abort
    \/ Load
    \/ LoadFail
    \/ FetchOK
    \/ FetchOKNoEndCursor
    \/ FetchFail
    \/ ScanCheck
    \/ ScanMatch
    \/ StoreOK
    \/ StoreFail

SpecCursor == Init /\ [][NextCursor]_vars

\* Discovery run again from the beginning of the stream: once a run has
\* processed the whole stream, the checkpoint's cursor is reset, its notes
\* and lastUsedDepositIndex kept, and discoverNotes is called again.
FullyProcessed ==
    /\ pc = "done"
    /\ stored.lastProcessedCursor = Some(Len(stream))

ResetCursor ==
    /\ FullyProcessed
    /\ resetFrom = Null
    /\ resetFrom' = Some([notes |-> stored.notes, lastUsedIndex |-> stored.lastUsedDepositIndex])
    /\ stored' = [stored EXCEPT !.lastProcessedCursor = Null]
    /\ pc' = "idle"
    /\ UNCHANGED <<derivationCall, parseCall, requestMap, requests, lastCall, depositCall,
                   genVars, stream, commitment, signalAborted, maxPages, runVars, runStart,
                   shadow, recorded, runRecorded>>

\* Streams as a chain produces them: a deposit is listed once, a nullifier
\* is spent once, and a note is spent after the activity that created it.
Before(s, a, b) == \E i, j \in DOMAIN s : i < j /\ s[i] = a /\ s[j] = b

Occurs(s, a) == \E i \in DOMAIN s : s[i] = a

ChainStreams ==
    {s \in Streams :
        /\ ~(Occurs(s, D0) /\ Occurs(s, P0))
        /\ Cardinality({w \in {W0a, W0b, W0n} : Occurs(s, w)}) <= 1
        /\ \A w \in {W0a, W0b, W0n} : Occurs(s, w) => Before(s, D0, w)
        /\ Occurs(s, W0c) => Before(s, W0a, W0c)}

InitRerun == Init /\ stream \in ChainStreams

NextRerun ==
    \/ StartUnlimited
    \/ Abort
    \/ Load
    \/ LoadFail
    \/ FetchOK
    \/ FetchFail
    \/ ScanCheck
    \/ ScanMatch
    \/ StoreOK
    \/ StoreFail
    \/ ResetCursor

SpecRerun == InitRerun /\ [][NextRerun]_vars

\* Discovery in which every awaited call settles and every synchronous step
\* is taken.  The steps of a run (Load, LoadFail, FetchOK, FetchFail,
\* ScanCheck, ScanMatch, StoreOK, StoreFail) are the steps that move pc while
\* the run has not ended, and the one for the current pc is always enabled:
\* a run that has not ended moves on.
Positions ==
    {"idle", "loading", "fetching", "scan", "scanMatch", "storing",
     "done", "cancelled", "failed"}

RunStep ==
    /\ pc \notin Ended
    /\ pc' \in Positions
    /\ pc' # pc

SpecTermination == InitRerun /\ [][Next]_vars /\ WF_pc(RunStep)

\* Discovery together with the deposit service, over streams of deposits.
DepositStreams == {s \in Streams : \A i \in DOMAIN s : s[i] \in {D0, D1, F0}}

InitDeposit == Init /\ stream \in DepositStreams

NextDeposit ==
    \/ GenerateDepositCommitment
    \/ UpdateDepositIndex
    \/ StartUnlimited
    \/ Abort
    \/ Load
    \/ LoadFail
    \/ FetchOK
    \/ FetchFail
    \/ ScanCheck
    \/ ScanMatch
    \/ StoreOK
    \/ StoreFail

SpecDeposit == InitDeposit /\ [][NextDeposit]_vars

\* The deposit service alone on its storage provider.
NextDepositService ==
    \/ GenerateDepositCommitmentCall
    \/ UpdateDepositIndex

SpecDepositService == InitDeposit /\ [][NextDepositService]_vars

\* Discovery in which the caller always supplies maxPages.
SuppliedMaxPages == {0, 1, 2}

StartWithMaxPages ==
    /\ pc \in Ended
    /\ pc' = "loading"
    /\ maxPages' \in SuppliedMaxPages
    /\ signalAborted' = FALSE
    /\ notes' = <<>>
    /\ lastUsedIndex' = -1
    /\ nextDepositIndex' = 0
    /\ liveDeposits' = <<>>
    /\ cursor' = Null
    /\ hasNext' = TRUE
    /\ pagesProcessed' = 0
    /\ activities' = <<>>
    /\ depositsMatched' = 0
    /\ UNCHANGED <<dataVars, genVars, stream, stored, commitment, runStart, shadow, recorded, runRecorded>>

NextMaxPages ==
    \/ StartWithMaxPages
    \/ Abort
    \/ Load
    \/ LoadFail
    \/ FetchOK
    \/ FetchFail
    \/ ScanCheck
    \/ ScanMatch
    \/ StoreOK
    \/ StoreFail

SpecMaxPages == InitDeposit /\ [][NextMaxPages]_vars

\* Discovery with a progress observer that may throw.  Nothing in
\* discoverNotes catches: the call is rejected with what the observer threw
\* (pc = "threw"), at whichever invocation it happens.
\* onProgress at line 105, before getCachedNotes is called.
ObserverThrowsAtStart ==
    /\ pc \in Ended
    /\ pc' = "threw"
    /\ maxPages' = 0
    /\ signalAborted' = FALSE
    /\ notes' = <<>>
    /\ lastUsedIndex' = -1
    /\ nextDepositIndex' = 0
    /\ liveDeposits' = <<>>
    /\ cursor' = Null
    /\ hasNext' = TRUE
    /\ pagesProcessed' = 0
    /\ activities' = <<>>
    /\ depositsMatched' = 0
    /\ UNCHANGED <<dataVars, genVars, stream, stored, commitment, runStart, shadow, recorded, runRecorded>>

\* onProgress at line 147: the page has arrived, nothing is extended yet.
ObserverThrowsAfterFetch ==
    /\ pc = "fetching"
    /\ \E n \in PageSizes(OffsetOf(cursor)) :
          /\ activities' = SubSeq(stream, OffsetOf(cursor) + 1, OffsetOf(cursor) + n)
          /\ cursor' = Some(OffsetOf(cursor) + n)
    /\ pagesProcessed' = pagesProcessed + 1
    /\ pc' = "threw"
    /\ UNCHANGED <<dataVars, genVars, stream, stored, commitment, signalAborted, maxPages, notes,
                   liveDeposits, lastUsedIndex, nextDepositIndex, hasNext,
                   depositsMatched, runStart, shadow, recorded, runRecorded>>

\* onProgress at line 173, called when there were live deposits to extend.
ObserverThrowsAfterExtend ==
    /\ pc = "fetching"
    /\ liveDeposits # <<>>
    /\ \E n \in PageSizes(OffsetOf(cursor)) :
        LET offset == OffsetOf(cursor)
            items == SubSeq(stream, offset + 1, offset + n)
            e == ExtendLive(liveDeposits, notes, liveDeposits, items)
        IN /\ activities' = items
           /\ cursor' = Some(offset + n)
           /\ notes' = e.notes
           /\ liveDeposits' = e.liveDeposits
    /\ pagesProcessed' = pagesProcessed + 1
    /\ pc' = "threw"
    /\ UNCHANGED <<dataVars, genVars, stream, stored, commitment, signalAborted, maxPages, lastUsedIndex,
                   nextDepositIndex, hasNext, depositsMatched, runStart, shadow,
                   recorded, runRecorded>>

\* onProgress at line 186, inside a scan iteration.
ObserverThrowsInScan ==
    /\ pc = "scanMatch"
    /\ pc' = "threw"
    /\ UNCHANGED <<dataVars, genVars, stream, stored, commitment, signalAborted, maxPages, runVars,
                   runStart, shadow, recorded, runRecorded>>

\* onProgress at line 230, right after storeDiscoveredNotes returned.
ObserverThrowsAfterStore ==
    /\ pc = "storing"
    /\ stored' = storeDiscoveredNotes(stored, notes, cursor)
    /\ shadow' = ShadowStep(shadow, activities, cursor)
    /\ pc' = "threw"
    /\ UNCHANGED <<dataVars, genVars, stream, commitment, signalAborted, maxPages, runVars, runStart,
                   recorded, runRecorded>>

\* onProgress at line 237, with progress.complete set, after the last page.
ObserverThrowsAtComplete ==
    /\ pc = "storing"
    /\ AfterStore = "done"
    /\ stored' = storeDiscoveredNotes(stored, notes, cursor)
    /\ shadow' = ShadowStep(shadow, activities, cursor)
    /\ hasNext' = PageHasNext
    /\ pc' = "threw"
    /\ UNCHANGED <<dataVars, genVars, stream, commitment, signalAborted, maxPages, notes, lastUsedIndex,
                   nextDepositIndex, liveDeposits, cursor, pagesProcessed, activities,
                   depositsMatched, runStart, recorded, runRecorded>>

NextObserver ==
    \/ StartUnlimited
    \/ Abort
    \/ Load
    \/ LoadFail
    \/ FetchOK
    \/ FetchFail
    \/ ScanCheck
    \/ ScanMatch
    \/ StoreOK
    \/ StoreFail
    \/ ObserverThrowsAtStart
    \/ ObserverThrowsAfterFetch
    \/ ObserverThrowsAfterExtend
    \/ ObserverThrowsInScan
    \/ ObserverThrowsAfterStore
    \/ ObserverThrowsAtComplete

SpecObserver == Init /\ [][NextObserver]_vars

(***************************************************************************)
(* WithdrawalProofGenerator.  The Merkle trees are LeanIMT trees of        *)
(* @zk-kit/lean-imt over poseidon2: a node with no right sibling is        *)
(* copied one level up, and an inclusion proof lists only the levels at    *)
(* which the node has a sibling.  JavaScript numbers that may be NaN are   *)
(* Number(n) or NaN.  Of the proof arguments only the ones the trees are   *)
(* built and searched with are kept; the others are rendered with          *)
(* toString() into the circuit inputs and read by nothing else.            *)
(***************************************************************************)
MAX_TREE_DEPTH == 32

\* A bigint that is a field element given as such (a leaf, BigInt(0)), next to
\* the poseidon terms.
FieldElement(n) == <<"F", n>>

Number(n) == <<"number", n>>
NaN == <<"NaN">>

\* Array.prototype.indexOf, 0-based; -1 when absent.
IndexOf(arr, x) ==
    LET hits == {i \in DOMAIN arr : arr[i] = x}
    IN IF hits = {} THEN -1 ELSE (CHOOSE i \in hits : \A j \in hits : i <= j) - 1

\* The level above `level`: pairs are hashed, an unpaired last node is copied.
ParentLevel(level) ==
    [i \in 1..((Len(level) + 1) \div 2) |->
        IF 2 * i <= Len(level) THEN poseidon2(level[2 * i - 1], level[2 * i])
        ELSE level[2 * i - 1]]

\* The levels of the tree holding `level` as its leaves, leaves first.
RECURSIVE LevelsFrom(_)
LevelsFrom(level) ==
    IF Len(level) <= 1 THEN <<level>> ELSE <<level>> \o LevelsFrom(ParentLevel(level))

\* new LeanIMT(hash) followed by insert(leaf) for every leaf in order.
buildMerkleTree(leaves) == LevelsFrom(leaves)

\* tree.depth
Depth(tree) == Len(tree) - 1

\* The loop of generateProof: one level per unfolding; a level whose sibling
\* does not exist adds nothing to siblings and path.
RECURSIVE ProofLoop(_, _, _, _, _)
ProofLoop(tree, level, index, siblings, path) ==
    IF level >= Depth(tree) THEN [siblings |-> siblings, path |-> path]
    ELSE LET isRightNode == index % 2
             siblingIndex == IF isRightNode = 1 THEN index - 1 ELSE index + 1
         IN IF siblingIndex < Len(tree[level + 1])
            THEN ProofLoop(tree, level + 1, index \div 2,
                           Append(siblings, tree[level + 1][siblingIndex + 1]),
                           Append(path, isRightNode))
            ELSE ProofLoop(tree, level + 1, index \div 2, siblings, path)

RECURSIVE BitsValue(_)
BitsValue(path) == IF path = <<>> THEN 0 ELSE Head(path) + 2 * BitsValue(Tail(path))

\* Number.parseInt(path.reverse().join(""), 2): NaN for the empty string.
ParseIntBinary(path) == IF path = <<>> THEN NaN ELSE Number(BitsValue(path))

\* tree.generateProof(index)
generateProof(tree, index) ==
    LET walked == ProofLoop(tree, 0, index, <<>>, <<>>)
    IN [root |-> tree[Len(tree)][1],
        leaf |-> tree[1][index + 1],
        index |-> ParseIntBinary(walked.path),
        siblings |-> walked.siblings]

\* Mutant of padArray: the zeros come first.
padArrayFront(arr, length) ==
    IF Len(arr) >= length THEN arr
    ELSE [i \in 1..(length - Len(arr)) |-> FieldElement(0)] \o arr

padArray(arr, length) ==
    IF Len(arr) >= length THEN arr
    ELSE arr \o [i \in 1..(length - Len(arr)) |-> FieldElement(0)]

\* Mutant of NaNGuard: the proof's index is passed on as it is.
NaNGuardNone(index) == index

\* Object.is(proof.index, Number.NaN) ? 0 : proof.index
NaNGuard(index) == IF index = NaN THEN Number(0) ELSE index

\* arr.map((s) => s.toString())
MapToString(arr) == [i \in DOMAIN arr |-> ToDecimalString(arr[i])]

\* The tree fields of prepareCircuitInputs and of
\* prepareCrossChainWithdrawalCircuitInputs, which build them the same way.
prepareCircuitInputs(stateProof, aspProof, stateTreeDepth, ASPTreeDepth, stateIndex, aspIndex) ==
    [stateRoot |-> ToDecimalString(stateProof.root),
     ASPRoot |-> ToDecimalString(aspProof.root),
     stateTreeDepth |-> ToDecimalString(stateTreeDepth),
     ASPTreeDepth |-> ToDecimalString(ASPTreeDepth),
     stateSiblings |-> MapToString(padArray(stateProof.siblings, MAX_TREE_DEPTH)),
     ASPSiblings |-> MapToString(padArray(aspProof.siblings, MAX_TREE_DEPTH)),
     stateIndex |-> stateIndex,
     ASPIndex |-> aspIndex]

CommitmentNotInStateTree == "Existing commitment not found in state tree"
LabelNotInASPTree == "Commitment label not found in ASP tree"
LoaderNotProvided == "Circuit file loader not provided"
LoaderRejected == "circuit file loader rejected"
ProverRejected == "fullProve rejected"
FailedVerification == "Generated proof failed verification"

\* Mutant of AssembleInputs: the label is looked up before the commitment.
AssembleInputsLabelFirst(args) ==
    LET stateTree == buildMerkleTree(args.stateTreeCommitments)
        aspTree == buildMerkleTree(args.aspTreeLabels)
        stateIndex == IndexOf(args.stateTreeCommitments, args.existingCommitmentHash)
        aspIndex == IndexOf(args.aspTreeLabels, args.label)
    IN IF aspIndex = -1 THEN [error |-> LabelNotInASPTree, inputs |-> Null]
       ELSE IF stateIndex = -1 THEN [error |-> CommitmentNotInStateTree, inputs |-> Null]
       ELSE LET stateProof == generateProof(stateTree, stateIndex)
                aspProof == generateProof(aspTree, aspIndex)
            IN [error |-> "none",
                inputs |-> Some(prepareCircuitInputs(
                               stateProof, aspProof, Depth(stateTree), Depth(aspTree),
                               NaNGuard(stateProof.index), NaNGuard(aspProof.index)))]

\* From the trees to the circuit inputs: what generateWithdrawalProof and
\* generateCrosschainWithdrawalProof do between obtaining the circuit files
\* and calling the prover.
AssembleInputs(args) ==
    LET stateTree == buildMerkleTree(args.stateTreeCommitments)
        aspTree == buildMerkleTree(args.aspTreeLabels)
        stateIndex == IndexOf(args.stateTreeCommitments, args.existingCommitmentHash)
        aspIndex == IndexOf(args.aspTreeLabels, args.label)
    IN IF stateIndex = -1 THEN [error |-> CommitmentNotInStateTree, inputs |-> Null]
       ELSE IF aspIndex = -1 THEN [error |-> LabelNotInASPTree, inputs |-> Null]
       ELSE LET stateProof == generateProof(stateTree, stateIndex)
                aspProof == generateProof(aspTree, aspIndex)
            IN [error |-> "none",
                inputs |-> Some(prepareCircuitInputs(
                               stateProof, aspProof, Depth(stateTree), Depth(aspTree),
                               NaNGuard(stateProof.index), NaNGuard(aspProof.index)))]

GenerateOps == {"generateWithdrawalProof", "generateCrosschainWithdrawalProof"}
VerifyOps == {"verifyWithdrawalProof", "verifyCrosschainWithdrawalProof"}
PublicOps == GenerateOps \cup VerifyOps

\* The circuit an operation works with.
CircuitOf(op) ==
    IF op \in {"generateWithdrawalProof", "verifyWithdrawalProof"}
    THEN "withdrawal" ELSE "crosschain"

FilesOf(circuit) ==
    IF circuit = "withdrawal" THEN circuitFiles ELSE crosschainCircuitFiles

LoaderOf(circuit) ==
    IF circuit = "withdrawal" THEN circuitFileLoader ELSE crosschainCircuitFileLoader

\* What a loader resolves with.
LoadedFiles(circuit) ==
    [wasmFile |-> <<"wasm", circuit>>, zkeyFile |-> <<"zkey", circuit>>,
     vkeyData |-> <<"vkey", circuit>>]

\* What the prover may resolve with.
ProofA == [proof |-> "proofA", publicSignals |-> "signalsA"]
ProofB == [proof |-> "proofB", publicSignals |-> "signalsB"]
ProofDataSet == {ProofA, ProofB}

Raise(call, error) == [call EXCEPT !.pc = "raised", !.error = error]
Return(call, value) == [call EXCEPT !.pc = "returned", !.result = Some(value)]

\* An error inside ensureCircuitFiles / ensureCrossChainWithdrawalCircuitFiles:
\* the generate operations let it through, the verify operations catch it,
\* log it and return false.
EnsureFailed(call, error) ==
    IF call.op \in GenerateOps THEN Raise(call, error) ELSE Return(call, FALSE)

\* snarkjs.groth16.verify is called with the proof data.
InvokeVerifier(call, proofData) ==
    [call EXCEPT !.pc = "verifying", !.verifierArg = Some(proofData),
                 !.verifierCalls = @ + 1]

\* A call goes on with the circuit files in hand, up to its next await.
AfterFiles(call, files) ==
    LET withFiles == [call EXCEPT !.circuitFiles = Some(files)]
    IN IF call.op \in GenerateOps
       THEN LET assembled == AssembleInputs(call.args[1])
            IN IF assembled.error # "none" THEN Raise(withFiles, assembled.error)
               ELSE [withFiles EXCEPT !.circuitInputs = assembled.inputs,
                                      !.pc = "proving", !.proverCalls = @ + 1]
       ELSE InvokeVerifier(withFiles, call.args[1])

\* Mutant of AfterSelfVerify: the proof is returned whatever the verdict.
AfterSelfVerifyAlways(call, isValid) == Return(call, call.proofData[1])

\* if (!isValid) throw ...; return { proof, publicSignals }
AfterSelfVerify(call, isValid) ==
    IF isValid THEN Return(call, call.proofData[1]) ELSE Raise(call, FailedVerification)

\* A public operation is called: it runs to its first await.  With the files
\* at hand it goes on; with none and no loader ensure* throws; otherwise the
\* loader is invoked and awaited.
CallStart(c, op, args) ==
    /\ calls[c].pc = "idle"
    /\ \A earlier \in 1..(c - 1) : calls[earlier].pc # "idle"
    /\ LET call == [calls[c] EXCEPT !.op = op, !.args = Some(args)]
           circuit == CircuitOf(op)
       IN IF FilesOf(circuit) # Null
          THEN /\ calls' = [calls EXCEPT ![c] = AfterFiles(call, FilesOf(circuit)[1])]
               /\ UNCHANGED loaderCalls
          ELSE IF ~LoaderOf(circuit)
          THEN /\ calls' = [calls EXCEPT ![c] = EnsureFailed(call, LoaderNotProvided)]
               /\ UNCHANGED loaderCalls
          ELSE /\ calls' = [calls EXCEPT ![c] = [call EXCEPT !.pc = "loading"]]
               /\ loaderCalls' = [loaderCalls EXCEPT ![circuit] = @ + 1]
    /\ UNCHANGED <<dataVars, discoveryVars, circuitFileLoader, crosschainCircuitFileLoader,
                   circuitFiles, crosschainCircuitFiles, contextCall>>

\* The loader a call awaits resolves: the files are kept (this.circuitFiles =
\* await ...) and the call goes on.
LoaderResolves ==
    \E c \in Calls :
        /\ calls[c].pc = "loading"
        /\ LET circuit == CircuitOf(calls[c].op)
               files == LoadedFiles(circuit)
           IN /\ circuitFiles' =
                     IF circuit = "withdrawal" THEN Some(files) ELSE circuitFiles
              /\ crosschainCircuitFiles' =
                     IF circuit = "crosschain" THEN Some(files) ELSE crosschainCircuitFiles
              /\ calls' = [calls EXCEPT ![c] = AfterFiles(calls[c], files)]
        /\ UNCHANGED <<dataVars, discoveryVars, circuitFileLoader, crosschainCircuitFileLoader,
                       loaderCalls, contextCall>>

\* The loader a call awaits rejects: nothing is kept.
LoaderRejects ==
    \E c \in Calls :
        /\ calls[c].pc = "loading"
        /\ calls' = [calls EXCEPT ![c] = EnsureFailed(calls[c], LoaderRejected)]
        /\ UNCHANGED <<dataVars, discoveryVars, circuitFileLoader, crosschainCircuitFileLoader,
                       circuitFiles, crosschainCircuitFiles, loaderCalls, contextCall>>

\* fullProve resolves: the proof data goes to verifyWithdrawalProof or
\* verifyCrosschainWithdrawalProof, which finds the circuit files kept (they
\* are never cleared) and calls the verifier.
ProverResolves ==
    \E c \in Calls, proofData \in ProofDataSet :
        /\ calls[c].pc = "proving"
        /\ calls' = [calls EXCEPT ![c] =
                        InvokeVerifier([calls[c] EXCEPT !.proofData = Some(proofData)],
                                       proofData)]
        /\ UNCHANGED <<dataVars, discoveryVars, circuitFileLoader, crosschainCircuitFileLoader,
                       circuitFiles, crosschainCircuitFiles, loaderCalls, contextCall>>

\* fullProve rejects: generate* has no catch.
ProverRejects ==
    \E c \in Calls :
        /\ calls[c].pc = "proving"
        /\ calls' = [calls EXCEPT ![c] = Raise(calls[c], ProverRejected)]
        /\ UNCHANGED <<dataVars, discoveryVars, circuitFileLoader, crosschainCircuitFileLoader,
                       circuitFiles, crosschainCircuitFiles, loaderCalls, contextCall>>

\* groth16.verify resolves: a verify operation returns the verdict, a generate
\* operation returns its proof or raises.
VerifierResolves ==
    \E c \in Calls, isValid \in BOOLEAN :
        /\ calls[c].pc = "verifying"
        /\ LET judged == [calls[c] EXCEPT !.verdict = IF isValid THEN "true" ELSE "false"]
           IN calls' = [calls EXCEPT ![c] =
                           IF judged.op \in GenerateOps
                           THEN AfterSelfVerify(judged, isValid)
                           ELSE Return(judged, isValid)]
        /\ UNCHANGED <<dataVars, discoveryVars, circuitFileLoader, crosschainCircuitFileLoader,
                       circuitFiles, crosschainCircuitFiles, loaderCalls, contextCall>>

\* groth16.verify rejects: verify* catches, logs and returns false.
VerifierRejects ==
    \E c \in Calls :
        /\ calls[c].pc = "verifying"
        /\ LET judged == [calls[c] EXCEPT !.verdict = "threw"]
           IN calls' = [calls EXCEPT ![c] =
                           IF judged.op \in GenerateOps
                           THEN AfterSelfVerify(judged, FALSE)
                           ELSE Return(judged, FALSE)]
        /\ UNCHANGED <<dataVars, discoveryVars, circuitFileLoader, crosschainCircuitFileLoader,
                       circuitFiles, crosschainCircuitFiles, loaderCalls, contextCall>>

\* The leaves and labels the trees are built from.
Commitments == {FieldElement(11), FieldElement(12), FieldElement(13)}
Labels == {FieldElement(21), FieldElement(22)}

LeafLists(values, longest) == UNION {[1..n -> values] : n \in 0..longest}

ProofArgs ==
    {[existingCommitmentHash |-> commitmentHash, label |-> label,
      stateTreeCommitments |-> stateLeaves, aspTreeLabels |-> aspLeaves] :
        commitmentHash \in Commitments, label \in Labels,
        stateLeaves \in LeafLists(Commitments, MaxLeaves),
        aspLeaves \in LeafLists(Labels, MaxLeaves - 1)}

\* A member of both trees, each of one leaf.
MemberArgs ==
    [existingCommitmentHash |-> FieldElement(11), label |-> FieldElement(21),
     stateTreeCommitments |-> <<FieldElement(11)>>,
     aspTreeLabels |-> <<FieldElement(21)>>]

ArgsOf(op) == IF op \in GenerateOps THEN {MemberArgs} ELSE ProofDataSet

\* A generator as constructed, with or without each loader.
InitGenerator ==
    /\ stream = <<>>
    /\ DiscoveryIdle
    /\ circuitFileLoader \in BOOLEAN
    /\ crosschainCircuitFileLoader \in BOOLEAN
    /\ GeneratorIdle
    /\ contextCall = Null
    /\ DataUnused

\* Any public operation, while other calls are in flight.
CallAny == \E c \in Calls, op \in PublicOps : \E args \in ArgsOf(op) : CallStart(c, op, args)

NextGenerator ==
    \/ CallAny
    \/ LoaderResolves
    \/ LoaderRejects
    \/ ProverResolves
    \/ ProverRejects
    \/ VerifierResolves
    \/ VerifierRejects

SpecGenerator == InitGenerator /\ [][NextGenerator]_vars

\* A generator with both loaders or with none.
InitAssembly == InitGenerator /\ crosschainCircuitFileLoader = circuitFileLoader

\* One proof generation, over every tree and member.
CallGenerate ==
    /\ calls[1].pc = "idle"
    /\ \E op \in GenerateOps, args \in ProofArgs : CallStart(1, op, args)

NextAssembly ==
    \/ CallGenerate
    \/ LoaderResolves
    \/ LoaderRejects
    \/ ProverResolves
    \/ ProverRejects
    \/ VerifierResolves
    \/ VerifierRejects

SpecAssembly == InitAssembly /\ [][NextAssembly]_vars

(***************************************************************************)
(* WithdrawalContextService, for the pool of the model.  A note's amount   *)
(* and label are strings read with BigInt(..).                             *)
(***************************************************************************)
deriveChangeSecret(key, depositIndex, changeIndex) ==
    <<"ChangeSecretV1", key, depositIndex, changeIndex>>
deriveRefundNullifier(key, depositIndex, changeIndex) ==
    <<"RefundNullifierV1", key, depositIndex, changeIndex>>
deriveRefundSecret(key, depositIndex, changeIndex) ==
    <<"RefundSecretV1", key, depositIndex, changeIndex>>

poseidon3(a, b, c) == <<"poseidon3", a, b, c>>

\* keccak256 of the ABI encoding, reduced modulo the scalar field.
calculateContextHash(withdrawalData, poolScope) ==
    <<"keccak256 mod F", withdrawalData, poolScope>>

derivedNoteCommitment(accountKey, note) ==
    LET nullifier == IF note.changeIndex = 0
                     THEN deriveDepositNullifier(accountKey, note.depositIndex)
                     ELSE deriveChangeNullifier(accountKey, note.depositIndex, note.changeIndex)
        secret == IF note.changeIndex = 0
                  THEN deriveDepositSecret(accountKey, note.depositIndex)
                  ELSE deriveChangeSecret(accountKey, note.depositIndex, note.changeIndex)
        precommitment == poseidon2(nullifier, secret)
    IN poseidon3(BigIntOf(note.amount), BigIntOf(note.label), precommitment)

\* Mutant of calculateWithdrawalContext: the spent note's nullifier and secret
\* are always derived as a deposit note's.
calculateWithdrawalContextAsDeposit(note, accountKey, withdrawalData, poolScope) ==
    [context |-> calculateContextHash(withdrawalData, poolScope),
     newNullifier |-> deriveChangeNullifier(accountKey, note.depositIndex, note.changeIndex + 1),
     newSecret |-> deriveChangeSecret(accountKey, note.depositIndex, note.changeIndex + 1),
     existingNullifier |-> deriveDepositNullifier(accountKey, note.depositIndex),
     existingSecret |-> deriveDepositSecret(accountKey, note.depositIndex),
     existingCommitment |-> derivedNoteCommitment(accountKey, note)]

\* Mutant of calculateWithdrawalContext: the change note's nullifier and
\* secret are derived at the spent note's own changeIndex.
calculateWithdrawalContextSameIndex(note, accountKey, withdrawalData, poolScope) ==
    [context |-> calculateContextHash(withdrawalData, poolScope),
     newNullifier |-> deriveChangeNullifier(accountKey, note.depositIndex, note.changeIndex),
     newSecret |-> deriveChangeSecret(accountKey, note.depositIndex, note.changeIndex),
     existingNullifier |->
         IF note.changeIndex = 0
         THEN deriveDepositNullifier(accountKey, note.depositIndex)
         ELSE deriveChangeNullifier(accountKey, note.depositIndex, note.changeIndex),
     existingSecret |->
         IF note.changeIndex = 0
         THEN deriveDepositSecret(accountKey, note.depositIndex)
         ELSE deriveChangeSecret(accountKey, note.depositIndex, note.changeIndex),
     existingCommitment |-> derivedNoteCommitment(accountKey, note)]

calculateWithdrawalContext(note, accountKey, withdrawalData, poolScope) ==
    [context |-> calculateContextHash(withdrawalData, poolScope),
     newNullifier |-> deriveChangeNullifier(accountKey, note.depositIndex, note.changeIndex + 1),
     newSecret |-> deriveChangeSecret(accountKey, note.depositIndex, note.changeIndex + 1),
     existingNullifier |->
         IF note.changeIndex = 0
         THEN deriveDepositNullifier(accountKey, note.depositIndex)
         ELSE deriveChangeNullifier(accountKey, note.depositIndex, note.changeIndex),
     existingSecret |->
         IF note.changeIndex = 0
         THEN deriveDepositSecret(accountKey, note.depositIndex)
         ELSE deriveChangeSecret(accountKey, note.depositIndex, note.changeIndex),
     existingCommitment |-> derivedNoteCommitment(accountKey, note)]

\* Mutant of calculateCrosschainWithdrawalContext: the refund note is derived
\* as the change note of the same coordinate.
calculateCrosschainWithdrawalContextAsChange(note, accountKey, withdrawalData, poolScope) ==
    LET baseContext == calculateWithdrawalContext(note, accountKey, withdrawalData, poolScope)
        refundNullifier ==
            deriveChangeNullifier(accountKey, note.depositIndex, note.changeIndex + 1)
        refundSecret == deriveChangeSecret(accountKey, note.depositIndex, note.changeIndex + 1)
        refundPrecommitment == poseidon2(refundNullifier, refundSecret)
        remainingAmount == BigIntOf(note.amount)
    IN [context |-> baseContext.context,
        newNullifier |-> baseContext.newNullifier,
        newSecret |-> baseContext.newSecret,
        existingNullifier |-> baseContext.existingNullifier,
        existingSecret |-> baseContext.existingSecret,
        existingCommitment |-> baseContext.existingCommitment,
        refundNullifier |-> refundNullifier,
        refundSecret |-> refundSecret,
        refundCommitment |->
            poseidon3(remainingAmount, BigIntOf(note.label), refundPrecommitment)]

calculateCrosschainWithdrawalContext(note, accountKey, withdrawalData, poolScope) ==
    LET baseContext == calculateWithdrawalContext(note, accountKey, withdrawalData, poolScope)
        refundNullifier ==
            deriveRefundNullifier(accountKey, note.depositIndex, note.changeIndex + 1)
        refundSecret == deriveRefundSecret(accountKey, note.depositIndex, note.changeIndex + 1)
        refundPrecommitment == poseidon2(refundNullifier, refundSecret)
        remainingAmount == BigIntOf(note.amount)
    IN [context |-> baseContext.context,
        newNullifier |-> baseContext.newNullifier,
        newSecret |-> baseContext.newSecret,
        existingNullifier |-> baseContext.existingNullifier,
        existingSecret |-> baseContext.existingSecret,
        existingCommitment |-> baseContext.existingCommitment,
        refundNullifier |-> refundNullifier,
        refundSecret |-> refundSecret,
        refundCommitment |->
            poseidon3(remainingAmount, BigIntOf(note.label), refundPrecommitment)]

\* The notes handed to the context service.
ContextNotes ==
    {[depositIndex |-> depositIndex, changeIndex |-> changeIndex,
      amount |-> Some(amount), label |-> Some(label)] :
        depositIndex \in 0..MaxIndex, changeIndex \in 0..MaxIndex,
        amount \in 0..2, label \in {100, 101}}

WithdrawalDataSet == {<<"entrypoint", "data1">>, <<"entrypoint", "data2">>}

PoolScope == <<"scope">>

InitContext ==
    /\ stream = <<>>
    /\ DiscoveryIdle
    /\ DataUnused
    /\ circuitFileLoader = FALSE
    /\ crosschainCircuitFileLoader = FALSE
    /\ GeneratorIdle
    /\ contextCall \in
           {[op |-> "none", note |-> note, accountKey |-> accountKey,
             withdrawalData |-> withdrawalData, result |-> Null] :
               note \in ContextNotes, accountKey \in {AccountKey, OtherKey},
               withdrawalData \in WithdrawalDataSet}

CalculateWithdrawalContext ==
    /\ contextCall.op = "none"
    /\ contextCall' =
           [contextCall EXCEPT
               !.op = "calculateWithdrawalContext",
               !.result = Some(calculateWithdrawalContext(
                                   contextCall.note, contextCall.accountKey,
                                   contextCall.withdrawalData, PoolScope))]
    /\ UNCHANGED <<dataVars, discoveryVars, circuitFileLoader, crosschainCircuitFileLoader,
                   circuitFiles, crosschainCircuitFiles, loaderCalls, calls>>

CalculateCrosschainWithdrawalContext ==
    /\ contextCall.op = "none"
    /\ contextCall' =
           [contextCall EXCEPT
               !.op = "calculateCrosschainWithdrawalContext",
               !.result = Some(calculateCrosschainWithdrawalContext(
                                   contextCall.note, contextCall.accountKey,
                                   contextCall.withdrawalData, PoolScope))]
    /\ UNCHANGED <<dataVars, discoveryVars, circuitFileLoader, crosschainCircuitFileLoader,
                   circuitFiles, crosschainCircuitFiles, loaderCalls, calls>>

NextContext ==
    \/ CalculateWithdrawalContext
    \/ CalculateCrosschainWithdrawalContext

SpecContext == InitContext /\ [][NextContext]_vars

(***************************************************************************)
(* noteDerivation with its pool argument and parseUserKey.  Strings are    *)
(* sequences of characters.  The field modulus is scaled down to F; keccak *)
(* and poseidon are collision-free terms, and encodePacked of fixed-width  *)
(* fields is the tuple of the fields.  The derivations above are these at  *)
(* one pool, with the key as a term.                                       *)
(***************************************************************************)
\* The % of JavaScript: the remainder has the sign of the dividend.
Remainder(x, m) == IF x >= 0 THEN x % m ELSE -((-x) % m)

modF(x) == Remainder(Remainder(x, F) + F, F)

DigitChars == <<"0", "1", "2", "3", "4", "5", "6", "7", "8", "9",
                "a", "b", "c", "d", "e", "f">>

\* n.toString(base) for n >= 0.
RECURSIVE Digits(_, _)
Digits(n, base) ==
    IF n < base THEN <<DigitChars[n + 1]>>
    ELSE Digits(n \div base, base) \o <<DigitChars[(n % base) + 1]>>

\* x.toString(base)
ToStringRadix(x, base) == IF x < 0 THEN <<"-">> \o Digits(-x, base) ELSE Digits(x, base)

\* String.prototype.trim
RECURSIVE TrimStart(_)
TrimStart(s) == IF s # <<>> /\ Head(s) = " " THEN TrimStart(Tail(s)) ELSE s
RECURSIVE TrimEnd(_)
TrimEnd(s) ==
    IF s # <<>> /\ s[Len(s)] = " " THEN TrimEnd(SubSeq(s, 1, Len(s) - 1)) ELSE s
Trim(s) == TrimEnd(TrimStart(s))

StartsWith0x(s) == Len(s) >= 2 /\ s[1] = "0" /\ s[2] = "x"

DigitValue(ch) == (CHOOSE i \in DOMAIN DigitChars : DigitChars[i] = ch) - 1

IsDigitOf(ch, base) == \E i \in 1..base : DigitChars[i] = ch

RECURSIVE DigitsValue(_, _)
DigitsValue(s, base) ==
    IF s = <<>> THEN 0
    ELSE DigitsValue(SubSeq(s, 1, Len(s) - 1), base) * base + DigitValue(s[Len(s)])

AllDigits(s, base) == s # <<>> /\ \A i \in DOMAIN s : IsDigitOf(s[i], base)

SyntaxError == <<"SyntaxError">>
BigIntValue(n) == <<"bigint", n>>
StringValue(s) == <<"string", s>>

\* BigInt(string): white space around the literal is dropped, the empty
\* string is 0n, a 0x literal takes no sign, a decimal literal may have one.
StringToBigInt(string) ==
    LET s == Trim(string)
    IN IF s = <<>> THEN BigIntValue(0)
       ELSE IF StartsWith0x(s)
       THEN IF AllDigits(SubSeq(s, 3, Len(s)), 16)
            THEN BigIntValue(DigitsValue(SubSeq(s, 3, Len(s)), 16)) ELSE SyntaxError
       ELSE IF Head(s) = "-"
       THEN IF AllDigits(Tail(s), 10)
            THEN BigIntValue(-DigitsValue(Tail(s), 10)) ELSE SyntaxError
       ELSE IF AllDigits(s, 10) THEN BigIntValue(DigitsValue(s, 10)) ELSE SyntaxError

\* modF of a parsed value; a SyntaxError goes through.
ReduceParsed(parsed) == IF parsed = SyntaxError THEN SyntaxError ELSE BigIntValue(modF(parsed[2]))

parseUserKey(userKey) ==
    IF userKey[1] = "bigint" THEN BigIntValue(modF(userKey[2]))
    ELSE LET s == Trim(userKey[2])
         IN IF StartsWith0x(s) THEN ReduceParsed(StringToBigInt(s))
            ELSE ReduceParsed(StringToBigInt(s))

\* keccak256(encodePacked(['string'], [name]))
TagOf(name) == <<"keccak256", name>>
\* fieldFromKeccak(tag)
DomOf(tag) == <<"fieldFromKeccak", tag>>

TAG_DEPOSIT_NULLIFIER == TagOf("shinobi.cash:DepositNullifierV1")
TAG_DEPOSIT_SECRET == TagOf("shinobi.cash:DepositSecretV1")
TAG_CHANGE_NULLIFIER == TagOf("shinobi.cash:ChangeNullifierV1")
TAG_CHANGE_SECRET == TagOf("shinobi.cash:ChangeSecretV1")
TAG_REFUND_NULLIFIER == TagOf("shinobi.cash:RefundNullifierV1")
TAG_REFUND_SECRET == TagOf("shinobi.cash:RefundSecretV1")

\* A pool address as written: the address and its letter case.
PoolStrings == {<<"0xa1", "lower">>, <<"0xa1", "checksum">>, <<"0xb2", "checksum">>}

\* getAddress: the checksum spelling of the address.
getAddress(poolAddress) == <<poolAddress[1], "checksum">>

\* Mutant of contextField: the change index is left out of the packing.
contextFieldNoChangeIndex(poolAddress, depositIndex, changeIndex, tag) ==
    <<"fieldFromKeccak", <<getAddress(poolAddress), depositIndex, 0, tag>>>>

contextField(poolAddress, depositIndex, changeIndex, tag) ==
    <<"fieldFromKeccak", <<getAddress(poolAddress), depositIndex, changeIndex, tag>>>>

\* modF(poseidon2([key, modF(poseidon2([ctx, dom]))])): poseidon2 is in the field.
prf2(key, ctx, dom) == poseidon2(key, poseidon2(ctx, dom))

deriveDepositNullifierOfPool(userKey, poolAddress, depositIndex) ==
    prf2(parseUserKey(userKey),
         contextField(poolAddress, depositIndex, 0, TAG_DEPOSIT_NULLIFIER),
         DomOf(TAG_DEPOSIT_NULLIFIER))

deriveDepositSecretOfPool(userKey, poolAddress, depositIndex) ==
    prf2(parseUserKey(userKey),
         contextField(poolAddress, depositIndex, 0, TAG_DEPOSIT_SECRET),
         DomOf(TAG_DEPOSIT_SECRET))

deriveChangeNullifierOfPool(userKey, poolAddress, depositIndex, changeIndex) ==
    prf2(parseUserKey(userKey),
         contextField(poolAddress, depositIndex, changeIndex, TAG_CHANGE_NULLIFIER),
         DomOf(TAG_CHANGE_NULLIFIER))

deriveChangeSecretOfPool(userKey, poolAddress, depositIndex, changeIndex) ==
    prf2(parseUserKey(userKey),
         contextField(poolAddress, depositIndex, changeIndex, TAG_CHANGE_SECRET),
         DomOf(TAG_CHANGE_SECRET))

deriveRefundNullifierOfPool(userKey, poolAddress, depositIndex, changeIndex) ==
    prf2(parseUserKey(userKey),
         contextField(poolAddress, depositIndex, changeIndex, TAG_REFUND_NULLIFIER),
         DomOf(TAG_REFUND_NULLIFIER))

deriveRefundSecretOfPool(userKey, poolAddress, depositIndex, changeIndex) ==
    prf2(parseUserKey(userKey),
         contextField(poolAddress, depositIndex, changeIndex, TAG_REFUND_SECRET),
         DomOf(TAG_REFUND_SECRET))

\* The six derivations at one coordinate.
DeriveSix(userKey, poolAddress, depositIndex, changeIndex) ==
    [depositNullifier |-> deriveDepositNullifierOfPool(userKey, poolAddress, depositIndex),
     depositSecret |-> deriveDepositSecretOfPool(userKey, poolAddress, depositIndex),
     changeNullifier |->
         deriveChangeNullifierOfPool(userKey, poolAddress, depositIndex, changeIndex),
     changeSecret |->
         deriveChangeSecretOfPool(userKey, poolAddress, depositIndex, changeIndex),
     refundNullifier |->
         deriveRefundNullifierOfPool(userKey, poolAddress, depositIndex, changeIndex),
     refundSecret |->
         deriveRefundSecretOfPool(userKey, poolAddress, depositIndex, changeIndex)]

UserKeys == {BigIntValue(1), BigIntValue(2), BigIntValue(3)}

InitDerive ==
    /\ stream = <<>>
    /\ DiscoveryIdle
    /\ GeneratorUnused
    /\ parseCall = Null
    /\ ClientIdle
    /\ resetFrom = Null
    /\ depositCall = Null
    /\ derivationCall \in
           [userKey : UserKeys, poolAddress : PoolStrings,
            depositIndex : 0..MaxIndex, changeIndex : 0..MaxIndex, derived : {Null}]

DeriveNoteSecrets ==
    /\ derivationCall.derived = Null
    /\ derivationCall' =
           [derivationCall EXCEPT !.derived =
               Some(DeriveSix(derivationCall.userKey, derivationCall.poolAddress,
                              derivationCall.depositIndex, derivationCall.changeIndex))]
    /\ UNCHANGED <<discoveryVars, genVars, parseCall, requestMap, requests, lastCall, resetFrom,
                   depositCall>>

NextDerive == DeriveNoteSecrets

SpecDerive == InitDerive /\ [][NextDerive]_vars

\* The spellings of an integer handed to parseUserKey: the bigint, its decimal
\* string and its hexadecimal string with 0x in front, the strings also with
\* white space around them.
Padded(s) == <<" ">> \o s \o <<" ", " ">>

KeyForms(x) ==
    [bigint |-> BigIntValue(x),
     decimal |-> StringValue(ToStringRadix(x, 10)),
     decimalPadded |-> StringValue(Padded(ToStringRadix(x, 10))),
     hex |-> StringValue(<<"0", "x">> \o ToStringRadix(x, 16)),
     hexPadded |-> StringValue(Padded(<<"0", "x">> \o ToStringRadix(x, 16)))]

InitParse ==
    /\ stream = <<>>
    /\ DiscoveryIdle
    /\ GeneratorUnused
    /\ derivationCall = Null
    /\ ClientIdle
    /\ resetFrom = Null
    /\ depositCall = Null
    /\ parseCall \in
           {[x |-> x, form |-> form, userKey |-> KeyForms(x)[form], result |-> Null] :
               x \in (-MaxKey)..MaxKey, form \in DOMAIN KeyForms(0)}

ParseUserKey ==
    /\ parseCall.result = Null
    /\ parseCall' = [parseCall EXCEPT !.result = Some(parseUserKey(parseCall.userKey))]
    /\ UNCHANGED <<discoveryVars, genVars, derivationCall, requestMap, requests, lastCall, resetFrom,
                   depositCall>>

NextParse == ParseUserKey

SpecParse == InitParse /\ [][NextParse]_vars

(***************************************************************************)
(* IndexerClient.executeQuery.  requestMap is the Map in insertion order,  *)
(* as a sequence of entries; requests is the list of the network requests  *)
(* made, and a promise is the position of its request in it.  lastCall     *)
(* records of the last executeQuery call whether it made a network         *)
(* request, whether a request with its key was in flight, and whether it   *)
(* returned the promise of such a request.  A query is a                   *)
(* sequence of characters, a variables object the sequence of its          *)
(* key-value pairs in insertion order.                                     *)
(***************************************************************************)
\* query.replace(/\s+/g, ' '): each run of white space becomes one space.
RECURSIVE CollapseWhitespace(_)
CollapseWhitespace(query) ==
    IF query = <<>> THEN <<>>
    ELSE IF Head(query) = " "
    THEN <<" ">> \o CollapseWhitespace(TrimStart(query))
    ELSE <<Head(query)>> \o CollapseWhitespace(Tail(query))

\* Object.keys(variables).sort().reduce(...): the pairs in the order of their keys.
RECURSIVE SortVariables(_)
SortVariables(variables) ==
    IF variables = <<>> THEN <<>>
    ELSE LET first == CHOOSE i \in DOMAIN variables :
                          \A j \in DOMAIN variables : variables[i][1] <= variables[j][1]
         IN <<variables[first]>> \o
            SortVariables(SubSeq(variables, 1, first - 1) \o
                          SubSeq(variables, first + 1, Len(variables)))

generateRequestKey(query, variables) ==
    <<Trim(CollapseWhitespace(query)), "|", SortVariables(variables)>>

\* Map.prototype.get: the promise stored under the key, or undefined.
MapGet(map, key) ==
    IF \E i \in DOMAIN map : map[i].key = key
    THEN Some(map[CHOOSE i \in DOMAIN map : map[i].key = key].promise)
    ELSE Null

\* Map.prototype.delete
MapDelete(map, key) == SelectSeq(map, LAMBDA entry : entry.key # key)

\* Map.prototype.set: a new key goes last, a known key keeps its place.
MapSet(map, key, promise) ==
    IF \E i \in DOMAIN map : map[i].key = key
    THEN [i \in DOMAIN map |->
              IF map[i].key = key THEN [key |-> key, promise |-> promise] ELSE map[i]]
    ELSE Append(map, [key |-> key, promise |-> promise])

cleanupRequest(map, requestKey) == MapDelete(map, requestKey)

cleanupOldRequests(map) ==
    IF Len(map) > maxPendingRequests
    THEN SubSeq(map, (maxPendingRequests \div 2) + 1, Len(map))
    ELSE map

\* The queries and variables handed to executeQuery: the first query in two
\* spellings and with its two variables in both orders, the others as they are.
NumQueries == maxPendingRequests + 2

QueryText(i) == <<"q", " ">> \o Digits(i, 10)
QuerySpaced(i) == <<" ", "q", " ", " ">> \o Digits(i, 10) \o <<" ">>

QueryCalls ==
    {<<QueryText(i), <<>>>> : i \in 2..NumQueries}
    \cup {<<text, variables>> :
              text \in {QueryText(1), QuerySpaced(1)},
              variables \in {<<<<1, "x">>, <<2, "y">>>>, <<<<2, "y">>, <<1, "x">>>>}}

\* The requests on the network with this key that have not settled.
InFlight(key) == {p \in DOMAIN requests : requests[p].key = key /\ requests[p].state = "pending"}

executeQuery(query, variables) ==
    LET requestKey == generateRequestKey(query, variables)
        existingRequest == MapGet(requestMap, requestKey)
        requestPromise == Len(requests) + 1
    IN IF existingRequest # Null
       THEN /\ lastCall' = Some([requested |-> FALSE,
                                 inFlight |-> InFlight(requestKey) # {},
                                 shared |-> existingRequest[1] \in InFlight(requestKey)])
            /\ UNCHANGED <<requestMap, requests>>
       ELSE /\ Len(requests) < MaxRequests
            /\ requests' = Append(requests, [key |-> requestKey, state |-> "pending"])
            /\ requestMap' = MapSet(cleanupOldRequests(requestMap), requestKey, requestPromise)
            /\ lastCall' = Some([requested |-> TRUE,
                                 inFlight |-> InFlight(requestKey) # {},
                                 shared |-> FALSE])

ExecuteQuery ==
    /\ \E call \in QueryCalls : executeQuery(call[1], call[2])
    /\ UNCHANGED <<discoveryVars, genVars, derivationCall, parseCall, resetFrom, depositCall>>

\* client.request settles and the handler attached to it runs.
Settle(p, state) ==
    /\ requests[p].state = "pending"
    /\ requests' = [requests EXCEPT ![p].state = state]
    /\ requestMap' = cleanupRequest(requestMap, requests[p].key)
    /\ UNCHANGED <<lastCall, discoveryVars, genVars, derivationCall, parseCall, resetFrom,
                   depositCall>>

RequestResolves == \E p \in DOMAIN requests : Settle(p, "resolved")

RequestRejects == \E p \in DOMAIN requests : Settle(p, "rejected")

InitClient ==
    /\ stream = <<>>
    /\ DiscoveryIdle
    /\ GeneratorUnused
    /\ DataUnused

NextClient == ExecuteQuery \/ RequestResolves \/ RequestRejects

SpecClient == InitClient /\ [][NextClient]_vars

(***************************************************************************)
(* Properties.                                                             *)
(***************************************************************************)
\* The run returned after the fetcher reported the end of the stream.
RanToCompletion == pc = "done" /\ ~hasNext

\* The position of the first deposit activity of the account at depositIndex
\* in the stream, 0 if there is none.
FirstDepositAt(depositIndex) ==
    LET own == {p \in DOMAIN stream :
                   /\ stream[p].type \in {"DEPOSIT", "CROSSCHAIN_DEPOSIT"}
                   /\ stream[p].precommitmentHash =
                         Some(TargetPrecommitment(AccountKey, depositIndex))}
    IN IF own = {} THEN 0 ELSE CHOOSE p \in own : \A q \in own : p <= q

OwnDepositIndices == {i \in 0..MaxLen : FirstDepositAt(i) > 0}

\* The account's deposits are those of indices 0..n-1 and they appear in
\* ascending index order.
DepositsAscending ==
    \A i \in OwnDepositIndices :
        i > 0 => (i - 1) \in OwnDepositIndices /\ FirstDepositAt(i - 1) < FirstDepositAt(i)

\* C1: a run from the empty checkpoint that reaches the end of a stream whose
\* own deposits 0..n-1 appear in ascending index order ends with n chains,
\* chain i built from the account's deposit activity of index i, hence with no
\* chain for a deposit of somebody else.
C1_OneChainPerOwnDeposit ==
    (RanToCompletion /\ runStart = EmptyCheckpoint /\ DepositsAscending) =>
        /\ Len(notes) = Cardinality(OwnDepositIndices)
        /\ \A j \in DOMAIN notes :
              /\ notes[j][1].depositIndex = j - 1
              /\ notes[j][1].originTransactionHash =
                    stream[FirstDepositAt(j - 1)].originTransactionHash

\* C1 witness: two own deposits and a foreign one, read in two pages.
C1_Witness ==
    /\ RanToCompletion /\ runStart = EmptyCheckpoint /\ DepositsAscending
    /\ Len(notes) = 2
    /\ pagesProcessed = 2
    /\ \E i \in DOMAIN stream : stream[i] = F0

\* The result of reading the rest of the stream as one page from the
\* checkpoint the run loaded.
OnePageResult ==
    ProcessPage(LoadedState(getCachedNotes(runStart)),
                SubSeq(stream, OffsetOf(runStart.lastProcessedCursor) + 1, Len(stream)))

\* C2: whatever the pages, a run that reaches the end of the stream ends with
\* the notes and lastUsedIndex of the run that reads the same activities as
\* one page.
C2_PageSplitIndependent ==
    RanToCompletion =>
        /\ notes = OnePageResult.notes
        /\ lastUsedIndex = OnePageResult.lastUsedIndex

AllChains == {notes[j] : j \in DOMAIN notes} \cup {stored.notes[j] : j \in DOMAIN stored.notes}

\* C3: a run resumed from the persisted checkpoint that reaches the end of
\* the stream ends with the notes and lastUsedIndex of the run that read
\* the same pages without ever being interrupted.
C3_ResumeEqualsUninterrupted ==
    RanToCompletion =>
        /\ notes = shadow.notes
        /\ lastUsedIndex = shadow.lastUsedIndex

\* C3 witness: a run that started at a checkpoint in the middle of the stream
\* (left by a cancelled or failed run) and extended a cached chain.
C3_Witness ==
    /\ RanToCompletion
    /\ OffsetOf(runStart.lastProcessedCursor) \in 1..(Len(stream) - 1)
    /\ runStart.notes # <<>>
    /\ Len(notes[1]) > Len(runStart.notes[1])

\* C4: in every chain, in memory and in the checkpoint, the changeIndex
\* values are 0, 1, 2, ... in order.
C4_ChangeIndexContiguous ==
    \A chain \in AllChains : \A j \in DOMAIN chain : chain[j].changeIndex = j - 1

\* C4 witness: a chain of three notes whose second change note was appended
\* on a later page than the first.
C4_Witness ==
    /\ pagesProcessed >= 2
    /\ \E j \in DOMAIN notes :
          /\ Len(notes[j]) = 3
          /\ j \in DOMAIN stored.notes
          /\ Len(stored.notes[j]) = 2

\* C5: no note has a negative amount, that is, the withdrawals matched to a
\* chain never sum to more than its deposit note's amount.
C5_NoNegativeAmount ==
    \A chain \in AllChains : \A j \in DOMAIN chain : BigIntOf(chain[j].amount) >= 0

\* The page between the stored cursor and the run's cursor.
PageAfterStoredCursor ==
    SubSeq(stream, OffsetOf(stored.lastProcessedCursor) + 1, OffsetOf(cursor))

\* C6: the stored cursor is the endCursor of the last page that was processed
\* in full and checkpointed; while a page is being processed, and after it
\* was cut short, the stored cursor is still the one the page was fetched
\* with.
C6_StoredCursorIsLastCompletedPage ==
    /\ stored.lastProcessedCursor = shadow.cursor
    /\ pc \in {"scan", "scanMatch", "storing"} => activities = PageAfterStoredCursor
    /\ pc \in {"cancelled", "failed"} =>
          \/ cursor = stored.lastProcessedCursor
          \/ activities = PageAfterStoredCursor

\* C6 witness: a page is cut short by cancellation after an earlier page was
\* checkpointed.
C6_Witness ==
    /\ pc = "cancelled"
    /\ pagesProcessed = 2
    /\ stored.lastProcessedCursor # Null
    /\ cursor # stored.lastProcessedCursor

\* C7: a run whose signal was aborted never returns a DiscoveryResult.
C7_AbortedNeverReturns == pc = "done" => ~signalAborted

C9_RecordedDepositMaterialized ==
    pc = "storing" =>
        \A i \in runRecorded :
            FindDeposit(activities, TargetPrecommitment(AccountKey, i)) > 0 =>
                \E j \in DOMAIN notes : notes[j][1].depositIndex = i

\* C10: no two chains, in memory or in the checkpoint, have the same
\* depositIndex.
C10_UniqueDepositIndex ==
    /\ \A i, j \in DOMAIN notes :
          notes[i][1].depositIndex = notes[j][1].depositIndex => i = j
    /\ \A i, j \in DOMAIN stored.notes :
          stored.notes[i][1].depositIndex = stored.notes[j][1].depositIndex => i = j

\* C10 witness: a resumed run added a second chain to a cached one, while the
\* stream held a second activity at the first chain's precommitment.
C10_Witness ==
    /\ pc = "done"
    /\ Len(runStart.notes) = 1
    /\ Len(notes) = 2
    /\ \E i, j \in DOMAIN stream : stream[i] = D0 /\ stream[j] = P0

\* C11: when a fetched page holds a withdrawal whose spentNullifier is the
\* hash of the nullifier of a live chain's tail, the extension of that page
\* marks the tail spent and appends a change note with the next changeIndex,
\* the tail's amount less the withdrawal's, status unspent iff that amount is
\* positive, and the label of the chain head.
C11_WithdrawalExtendsLiveTail ==
    [][(pc = "fetching" /\ pc' = "scan") =>
          \A i \in DOMAIN liveDeposits :
              LET at == liveDeposits[i].chainIndex + 1
                  chain == notes[at]
                  tail == Last(chain)
                  w == FindWithdrawal(activities', NullifierHashOf(TailNullifier(chain)))
              IN w > 0 =>
                    LET after == notes'[at]
                        left == BigIntOf(tail.amount) - activities'[w].amount[1]
                    IN /\ Len(after) > Len(chain)
                       /\ after[Len(chain)] = [tail EXCEPT !.status = "spent"]
                       /\ after[Len(chain) + 1].changeIndex = tail.changeIndex + 1
                       /\ after[Len(chain) + 1].amount = Some(left)
                       /\ after[Len(chain) + 1].status = "unspent" <=> left > 0
                       /\ after[Len(chain) + 1].label = chain[1].label]_vars

\* C12: a chain whose deposit note is pending (not activated) is that one
\* note, with amount "0" and the label "Pending Deposit #<depositIndex>", and
\* is not in liveDeposits.
C12_PendingChainStaysSingle ==
    /\ \A chain \in AllChains :
          ~chain[1].isActivated =>
              /\ Len(chain) = 1
              /\ chain[1].amount = Some(0)
              /\ chain[1].label = <<"Pending Deposit #", chain[1].depositIndex>>
    /\ \A i \in DOMAIN liveDeposits : notes[liveDeposits[i].chainIndex + 1][1].isActivated

\* C13: when the scan of a page is over and the page holds a deposit activity
\* with an amount and a label at the precommitment of a chain checkpointed as
\* pending, that chain's deposit note is activated with that amount and label
\* and the chain is in liveDeposits.
C13_PendingDepositActivated ==
    pc = "storing" =>
        \A j \in DOMAIN stored.notes :
            \A p \in DOMAIN activities :
                (/\ ~stored.notes[j][1].isActivated
                 /\ IsDepositType(activities[p])
                 /\ activities[p].precommitmentHash =
                       Some(TargetPrecommitment(AccountKey, stored.notes[j][1].depositIndex))
                 /\ TruthyAmount(activities[p].amount)
                 /\ activities[p].label # Null) =>
                    /\ notes[j][1].isActivated
                    /\ notes[j][1].amount = Some(activities[p].amount[1])
                    /\ notes[j][1].label = <<"label", activities[p].label[1]>>
                    /\ \E i \in DOMAIN liveDeposits : liveDeposits[i].chainIndex = j - 1

\* Every spent note of the chains `before` is the same note in `after`, and a
\* chain of `before` whose tail is spent is the same chain in `after`.
SpentKept(before, after) ==
    \A j \in DOMAIN before :
        /\ j \in DOMAIN after
        /\ \A i \in DOMAIN before[j] :
              before[j][i].status = "spent" =>
                  i \in DOMAIN after[j] /\ after[j][i] = before[j][i]
        /\ before[j][Len(before[j])].status = "spent" => after[j] = before[j]

\* C14: no step of a run changes a spent note or adds a note to a chain whose
\* tail is spent, in memory and from one checkpoint to the next; a run starts
\* from the chains of the checkpoint.
C14_SpentNotesFrozen ==
    [][/\ pc \in {"fetching", "scan", "scanMatch", "storing"} => SpentKept(notes, notes')
       /\ (pc = "loading" /\ pc' = "fetching") => notes' = stored.notes
       /\ SpentKept(stored.notes, stored'.notes)]_vars

\* C14 witness: a later page holds the withdrawal that would spend the spent
\* tail of a checkpointed chain.
C14_Witness ==
    /\ pc = "storing"
    /\ \E j \in DOMAIN stored.notes :
          /\ stored.notes[j][Len(stored.notes[j])].status = "spent"
          /\ \E p \in DOMAIN activities :
                activities[p].spentNullifier =
                    Some(NullifierHashOf(TailNullifier(stored.notes[j])))

\* C15: in every chain, in memory and in the checkpoint, every note but the
\* last is spent.
C15_OnlyLastMayBeUnspent ==
    \A chain \in AllChains :
        \A i \in DOMAIN chain : i < Len(chain) => chain[i].status = "spent"

\* C15 witness: a returned and checkpointed chain of two notes whose tail is
\* unspent.
C15_Witness ==
    /\ pc = "done"
    /\ stored.notes = notes
    /\ \E j \in DOMAIN notes : Len(notes[j]) = 2 /\ notes[j][2].status = "unspent"

\* The positions of the stream that concern the chain of deposit index 0: the
\* deposits at its precommitment and the withdrawals spending one of its
\* nullifiers, in stream order.
Chain0Positions ==
    LET nullifiers == {deriveDepositNullifier(AccountKey, 0)}
                         \cup {deriveChangeNullifier(AccountKey, 0, ci) : ci \in 1..MaxLen}
        related == {p \in DOMAIN stream :
                       \/ stream[p].precommitmentHash = Some(TargetPrecommitment(AccountKey, 0))
                       \/ \E n \in nullifiers :
                             stream[p].spentNullifier = Some(NullifierHashOf(n))}
    IN CHOOSE f \in [1..Cardinality(related) -> related] :
           \A a, b \in DOMAIN f : a < b => f[a] < f[b]

\* The sum of the amounts of the activities at positions f[2..i].
RECURSIVE WithdrawnUpTo(_, _)
WithdrawnUpTo(f, i) ==
    IF i < 2 THEN 0 ELSE WithdrawnUpTo(f, i - 1) + stream[f[i]].amount[1]

\* The stream holds an activated deposit of index 0 followed by withdrawals
\* that spend the deposit note, the first change note, the second, ... and
\* add up to the deposit's amount, and nothing else about that chain.
DepositFullyWithdrawn ==
    LET f == Chain0Positions
    IN /\ Len(f) >= 2
       /\ stream[f[1]].type \in {"DEPOSIT", "CROSSCHAIN_DEPOSIT"}
       /\ stream[f[1]].label # Null
       /\ stream[f[1]].amount # Null
       /\ \A i \in 2..Len(f) :
             /\ stream[f[i]].type \in {"WITHDRAWAL", "CROSSCHAIN_WITHDRAWAL"}
             /\ stream[f[i]].spentNullifier =
                   Some(NullifierHashOf(IF i = 2 THEN deriveDepositNullifier(AccountKey, 0)
                                        ELSE deriveChangeNullifier(AccountKey, 0, i - 2)))
       /\ WithdrawnUpTo(f, Len(f)) = stream[f[1]].amount[1]

\* C16: a complete run from the empty checkpoint over a stream with an
\* activated deposit of amount A followed by k withdrawals that spend the
\* successive tails and add up to A ends, whatever the pages, with a chain of
\* k+1 notes, changeIndex 0..k, note i of amount A less the first i
\* withdrawals, the tail of amount 0 and spent, and not in liveDeposits.
C16_FullWithdrawalChain ==
    (RanToCompletion /\ runStart = EmptyCheckpoint /\ DepositFullyWithdrawn) =>
        LET f == Chain0Positions
        IN /\ Len(notes) >= 1
           /\ notes[1][1].depositIndex = 0
           /\ Len(notes[1]) = Len(f)
           /\ \A i \in DOMAIN notes[1] :
                 /\ notes[1][i].changeIndex = i - 1
                 /\ notes[1][i].amount =
                       Some(stream[f[1]].amount[1] - WithdrawnUpTo(f, i))
           /\ notes[1][Len(notes[1])].amount = Some(0)
           /\ notes[1][Len(notes[1])].status = "spent"
           /\ \A i \in DOMAIN liveDeposits : liveDeposits[i].chainIndex # 0

\* C17: when a page is checkpointed, liveDeposits holds exactly the chains
\* whose tail is unspent, activated and of positive amount, each once, with
\* the tail's amount as remaining and the chain's position as chainIndex.
C17_LiveDepositsExact ==
    pc = "storing" =>
        /\ \A i \in DOMAIN liveDeposits :
              /\ liveDeposits[i].chainIndex + 1 \in DOMAIN notes
              /\ LET chain == notes[liveDeposits[i].chainIndex + 1]
                 IN /\ liveDeposits[i].depositIndex = chain[1].depositIndex
                    /\ liveDeposits[i].remaining = chain[Len(chain)].amount[1]
        /\ \A i, j \in DOMAIN liveDeposits :
              liveDeposits[i].chainIndex = liveDeposits[j].chainIndex => i = j
        /\ \A j \in DOMAIN notes :
              LET tail == notes[j][Len(notes[j])]
              IN (tail.status = "unspent" /\ tail.isActivated /\ tail.amount[1] > 0)
                    <=> \E i \in DOMAIN liveDeposits : liveDeposits[i].chainIndex = j - 1

\* C17 witness: the second page is checkpointed with a spent chain and a live
\* chain behind it.
C17_Witness ==
    /\ pc = "storing"
    /\ pagesProcessed = 2
    /\ Len(notes) = 2
    /\ Len(liveDeposits) = 1
    /\ liveDeposits[1].chainIndex = 1

\* C18: a page is fetched only when the run has just loaded or has just
\* stored the page before, with the cursor that page returned, and the
\* checkpoint then holds everything the run has; the checkpoint is written
\* only by the store that follows the page's scan, with the run's notes and
\* cursor; notes change only in the extension and the scan of a page, and
\* the cursor only when a page arrives.
C18_StoreBetweenPages ==
    [][/\ (pc' = "fetching" /\ pc # "fetching") => pc \in {"loading", "storing"}
       /\ (pc = "fetching" /\ pc' = "scan") =>
             /\ stored.notes = notes
             /\ stored.lastProcessedCursor = cursor
             /\ activities' = SubSeq(stream, OffsetOf(cursor) + 1, OffsetOf(cursor'))
       /\ stored' # stored =>
             /\ pc = "storing"
             /\ notes' = notes
             /\ stored'.notes = notes
             /\ stored'.lastProcessedCursor = cursor
       /\ (notes' # notes /\ pc \in {"scan", "scanMatch", "storing"}) => pc = "scanMatch"
       /\ (cursor' # cursor /\ pc \in {"scan", "scanMatch", "storing"}) => FALSE]_vars

\* C18 witness: the second page has arrived and extended a chain that the
\* checkpoint of the first page holds.
C18_Witness ==
    /\ pc = "scan"
    /\ pagesProcessed = 2
    /\ stored.notes # <<>>
    /\ stored.lastProcessedCursor # Null
    /\ Len(notes[1]) > Len(stored.notes[1])

\* C19: a run never fetches more pages than the maxPages its caller supplied.
C19_PagesWithinMaxPages == pc # "idle" => pagesProcessed <= maxPages

\* C20: lastUsedIndex is at least the depositIndex of every chain in notes,
\* the next index scanned is lastUsedIndex + 1, lastUsedIndex never decreases
\* during a run, and the run returns the value it holds after its last page.
C20_LastUsedIndexMonotone ==
    [][/\ nextDepositIndex = lastUsedIndex + 1
       /\ \A j \in DOMAIN notes : notes[j][1].depositIndex <= lastUsedIndex
       /\ pc \in {"fetching", "scan", "scanMatch", "storing"} =>
             lastUsedIndex' >= lastUsedIndex
       /\ pc' = "done" => lastUsedIndex' = lastUsedIndex]_vars

\* C20 witness: a resumed run that loaded one chain and last used index 0
\* returned after matching the deposit of index 1.
C20_Witness ==
    /\ pc = "done"
    /\ Len(runStart.notes) = 1
    /\ runStart.lastUsedDepositIndex = 0
    /\ Len(notes) = 2
    /\ lastUsedIndex = 1

\* C21: a run whose observer throws ends as a cancelled run does; it never
\* ends by raising what the observer threw.
C21_ObserverThrowEndsCancelled == pc # "threw"

\* The number of notes in the chains.
RECURSIVE NoteCount(_)
NoteCount(chains) ==
    IF chains = <<>> THEN 0 ELSE Len(Head(chains)) + NoteCount(Tail(chains))

\* C22: the newNotesFound a run returns is the number of notes, deposit and
\* change notes alike, that the result holds beyond the checkpoint the run
\* started from.
C22_NewNotesFoundCountsNotes ==
    pc = "done" => depositsMatched = NoteCount(notes) - NoteCount(runStart.notes)

(***************************************************************************)
(* Properties of WithdrawalProofGenerator.                                 *)
(***************************************************************************)
\* C23: a generate operation returns a proof only when the verifier was given
\* that very proof data and answered true; when the verifier answers false or
\* rejects, the operation raises; the prover is invoked at most once per call.
C23_ReturnsOnlyVerifiedProof ==
    \A c \in Calls :
        calls[c].op \in GenerateOps =>
            /\ calls[c].pc = "returned" =>
                   /\ calls[c].verdict = "true"
                   /\ calls[c].verifierArg = calls[c].result
                   /\ calls[c].proofData = calls[c].result
            /\ calls[c].verdict \in {"false", "threw"} =>
                   /\ calls[c].pc = "raised"
                   /\ calls[c].error = FailedVerification
            /\ calls[c].proverCalls <= 1

\* One generation returned its proof and another raised on a false verdict.
C23_Witness ==
    \E c, d \in Calls :
        /\ calls[c].op \in GenerateOps /\ calls[c].pc = "returned"
        /\ calls[d].op \in GenerateOps /\ calls[d].verdict = "false"
        /\ calls[d].pc = "raised"

Absent(leaves, x) == \A i \in DOMAIN leaves : leaves[i] # x

Ended2(call) == call.pc \in {"returned", "raised"}

\* C24 as stated: a generation whose commitment is not among the state-tree
\* leaves fails with the commitment-not-in-state-tree error, one whose label
\* is not among the approved labels with the label-not-in-approved-tree error
\* (the state tree first), and neither reaches the prover or the verifier.
C24_MissingLeafError ==
    \A c \in Calls :
        calls[c].op \in GenerateOps =>
            LET args == calls[c].args[1]
                noCommitment == Absent(args.stateTreeCommitments, args.existingCommitmentHash)
                noLabel == Absent(args.aspTreeLabels, args.label)
            IN (noCommitment \/ noLabel) =>
                   /\ calls[c].proverCalls = 0
                   /\ calls[c].verifierCalls = 0
                   /\ calls[c].pc # "returned"
                   /\ calls[c].pc = "raised" =>
                          calls[c].error = IF noCommitment THEN CommitmentNotInStateTree
                                           ELSE LabelNotInASPTree

\* C24 amended: the same for a generation that obtained its circuit files;
\* the prover and the verifier are reached in no case.
C24_MissingLeafErrorWithFiles ==
    \A c \in Calls :
        calls[c].op \in GenerateOps =>
            LET args == calls[c].args[1]
                noCommitment == Absent(args.stateTreeCommitments, args.existingCommitmentHash)
                noLabel == Absent(args.aspTreeLabels, args.label)
            IN (noCommitment \/ noLabel) =>
                   /\ calls[c].proverCalls = 0
                   /\ calls[c].verifierCalls = 0
                   /\ calls[c].pc # "returned"
                   /\ calls[c].circuitFiles # Null =>
                          /\ calls[c].pc = "raised"
                          /\ calls[c].error = IF noCommitment THEN CommitmentNotInStateTree
                                              ELSE LabelNotInASPTree

\* With the files loaded, a generation missing both its commitment and its
\* label failed on the commitment.
C24_Witness ==
    \E c \in Calls :
        /\ calls[c].op \in GenerateOps
        /\ calls[c].circuitFiles # Null
        /\ Absent(calls[c].args[1].stateTreeCommitments, calls[c].args[1].existingCommitmentHash)
        /\ Absent(calls[c].args[1].aspTreeLabels, calls[c].args[1].label)
        /\ calls[c].args[1].stateTreeCommitments # <<>>
        /\ calls[c].error = CommitmentNotInStateTree

RECURSIVE Pow2(_)
Pow2(n) == IF n = 0 THEN 1 ELSE 2 * Pow2(n - 1)

\* ceil(log2(size)), 0 for at most one leaf.
CeilLog2(size) == CHOOSE d \in 0..size : Pow2(d) >= size /\ (d = 0 \/ Pow2(d - 1) < size)

\* Whether the node above leaf `position` at `level` has a sibling in a tree
\* of `size` leaves: the level holds ceil(size / 2^level) nodes.
HasSibling(size, position, level) ==
    LET index == position \div Pow2(level)
        sibling == IF index % 2 = 1 THEN index - 1 ELSE index + 1
    IN sibling < (size + Pow2(level) - 1) \div Pow2(level)

\* The bits of `position` at the levels that have a sibling, read as a number.
RECURSIVE CompactedFrom(_, _, _)
CompactedFrom(size, position, level) ==
    IF level >= CeilLog2(size) THEN 0
    ELSE IF HasSibling(size, position, level)
         THEN ((position \div Pow2(level)) % 2) + 2 * CompactedFrom(size, position, level + 1)
         ELSE CompactedFrom(size, position, level + 1)

PaddedRendering(padded, siblings) ==
    /\ Len(padded) = MAX_TREE_DEPTH
    /\ \A i \in 1..MAX_TREE_DEPTH :
           padded[i] = IF i <= Len(siblings) THEN ToDecimalString(siblings[i])
                       ELSE ToDecimalString(FieldElement(0))

\* C26: stateSiblings and ASPSiblings hold 32 entries, the proof's siblings in
\* their order and then zeros only; stateTreeDepth and ASPTreeDepth are the
\* depths of the trees.
C26_SiblingsPaddedToCircuitDepth ==
    \A c \in Calls :
        calls[c].circuitInputs # Null =>
            LET args == calls[c].args[1]
                inputs == calls[c].circuitInputs[1]
                stateProof == generateProof(
                                  buildMerkleTree(args.stateTreeCommitments),
                                  IndexOf(args.stateTreeCommitments, args.existingCommitmentHash))
                aspProof == generateProof(buildMerkleTree(args.aspTreeLabels),
                                          IndexOf(args.aspTreeLabels, args.label))
            IN /\ PaddedRendering(inputs.stateSiblings, stateProof.siblings)
               /\ PaddedRendering(inputs.ASPSiblings, aspProof.siblings)
               /\ inputs.stateTreeDepth =
                      ToDecimalString(CeilLog2(Len(args.stateTreeCommitments)))
               /\ inputs.ASPTreeDepth = ToDecimalString(CeilLog2(Len(args.aspTreeLabels)))

\* A state tree of depth 2 proved with two siblings, an approved-set tree of
\* one leaf proved with none.
C26_Witness ==
    \E c \in Calls :
        /\ calls[c].circuitInputs # Null
        /\ calls[c].circuitInputs[1].stateTreeDepth = ToDecimalString(2)
        /\ calls[c].circuitInputs[1].stateSiblings[2] # ToDecimalString(FieldElement(0))
        /\ calls[c].circuitInputs[1].stateSiblings[3] = ToDecimalString(FieldElement(0))
        /\ calls[c].circuitInputs[1].ASPTreeDepth = ToDecimalString(0)
        /\ calls[c].circuitInputs[1].ASPSiblings[1] = ToDecimalString(FieldElement(0))

\* C27: each loader is invoked at most once over the generator's life, and
\* only once a call that needs its circuit has been made.
C27_LoadersInvokedAtMostOnce ==
    \A circuit \in {"withdrawal", "crosschain"} :
        /\ loaderCalls[circuit] <= 1
        /\ loaderCalls[circuit] > 0 =>
               \E c \in Calls : calls[c].pc # "idle" /\ CircuitOf(calls[c].op) = circuit

\* C28: a public operation called on a generator without the loader of its
\* circuit raises the loader-not-provided error; it never returns a value.
C28_MissingLoaderRaises ==
    \A c \in Calls :
        (calls[c].pc # "idle" /\ ~LoaderOf(CircuitOf(calls[c].op))) =>
            /\ calls[c].pc = "raised"
            /\ calls[c].error = LoaderNotProvided

C30_ExistingCommitment ==
    contextCall.op # "none" =>
        LET note == contextCall.note
            result == contextCall.result[1]
        IN /\ result.existingCommitment =
                  poseidon3(BigIntOf(note.amount), BigIntOf(note.label),
                            poseidon2(result.existingNullifier, result.existingSecret))
           /\ result.existingCommitment = derivedNoteCommitment(contextCall.accountKey, note)

\* The context of a same-chain withdrawal of a change note was calculated.
C30_Witness ==
    /\ contextCall.op = "calculateWithdrawalContext"
    /\ contextCall.note.changeIndex = 2
    /\ contextCall.result # Null

(***************************************************************************)
(* Properties of noteDerivation.                                           *)
(***************************************************************************)
SixValues(derived) ==
    {derived.depositNullifier, derived.depositSecret, derived.changeNullifier,
     derived.changeSecret, derived.refundNullifier, derived.refundSecret}

\* C31: at one key and coordinate the six derived values are pairwise
\* distinct, and each derivation gives another value at every other
\* coordinate (pool address, depositIndex, changeIndex) it depends on.
C31_DerivationsDistinct ==
    derivationCall.derived # Null =>
        LET call == derivationCall
            derived == call.derived[1]
        IN /\ Cardinality(SixValues(derived)) = 6
           /\ \A pool \in PoolStrings, depositIndex \in 0..MaxIndex, changeIndex \in 0..MaxIndex :
                  LET other == DeriveSix(call.userKey, pool, depositIndex, changeIndex)
                      samePlace == /\ getAddress(pool) = getAddress(call.poolAddress)
                                   /\ depositIndex = call.depositIndex
                  IN /\ ~samePlace =>
                            /\ other.depositNullifier # derived.depositNullifier
                            /\ other.depositSecret # derived.depositSecret
                     /\ ~(samePlace /\ changeIndex = call.changeIndex) =>
                            /\ other.changeNullifier # derived.changeNullifier
                            /\ other.changeSecret # derived.changeSecret
                            /\ other.refundNullifier # derived.refundNullifier
                            /\ other.refundSecret # derived.refundSecret

\* The six values were derived for a change note.
C31_Witness ==
    /\ derivationCall.derived # Null
    /\ derivationCall.changeIndex = 1
    /\ derivationCall.depositIndex = 1

\* x modulo F, in 0..F-1.
MathMod(x) == CHOOSE r \in 0..(F - 1) : \E q \in (-MaxKey - 1)..(MaxKey + 1) : x = q * F + r

\* C32: parseUserKey gives x mod p, in [0, p), for the bigint x, for its
\* decimal string and for its 0x-hex string, with or without white space
\* around the string, whatever the sign and the size of x.
C32_ParseUserKeyAllForms ==
    parseCall.result # Null => parseCall.result[1] = BigIntValue(MathMod(parseCall.x))

(***************************************************************************)
(* Properties of IndexerClient.                                            *)
(***************************************************************************)
\* C33: an executeQuery call made while a request with the same key (the
\* query up to white space, the variables up to the order of their keys) is
\* in flight makes no network request and returns the promise of the request
\* in flight, however many other requests are pending.
C33_InFlightRequestIsShared ==
    lastCall # Null /\ lastCall[1].inFlight => ~lastCall[1].requested /\ lastCall[1].shared

(***************************************************************************)
(* Properties of discovery across runs.                                    *)
(***************************************************************************)
\* C34: once the checkpoint holds a cursor, no step replaces it by an absent
\* or an earlier cursor, and every fetch starts at the checkpoint's cursor
\* or later.
C34_CursorNeverRegresses ==
    [][/\ stored.lastProcessedCursor # Null =>
              /\ stored'.lastProcessedCursor # Null
              /\ OffsetOf(stored'.lastProcessedCursor) >= OffsetOf(stored.lastProcessedCursor)
       /\ stored'.lastProcessedCursor # Null /\ pc' = "fetching" =>
              /\ cursor' # Null
              /\ OffsetOf(cursor') >= OffsetOf(stored'.lastProcessedCursor)]_vars

\* C35: a discovery over a stream already fully processed, started from the
\* final notes and lastUsedIndex with the cursor reset, ends with the same
\* notes and the same lastUsedIndex.
C35_RerunChangesNothing ==
    resetFrom # Null /\ FullyProcessed =>
        /\ notes = resetFrom[1].notes
        /\ stored.notes = resetFrom[1].notes
        /\ lastUsedIndex = resetFrom[1].lastUsedIndex
        /\ stored.lastUsedDepositIndex = resetFrom[1].lastUsedIndex

(***************************************************************************)
(* Discovery against the context service.                                  *)
(***************************************************************************)
\* The note of a discovered chain with the coordinate and amount of n.
ChainNote(n, changeIndex) ==
    [depositIndex |-> n.depositIndex,
     changeIndex |-> changeIndex,
     noteType |-> IF changeIndex = 0 THEN "deposit" ELSE "change",
     amount |-> n.amount,
     originTransactionHash |-> "tN",
     status |-> "unspent",
     isActivated |-> TRUE,
     label |-> <<"label", n.label[1]>>]

\* A chain whose tail is n.
ChainEndingAt(n) ==
    IF n.changeIndex = 0 THEN <<ChainNote(n, 0)>>
    ELSE <<[ChainNote(n, 0) EXCEPT !.status = "spent"], ChainNote(n, n.changeIndex)>>

\* A page with the one withdrawal that spends the given nullifier.
SpendingPage(nullifier) ==
    <<WithdrawalActivity("WITHDRAWAL", "tW", nullifier, Some(1), Some("c"))>>

\* C36: for the account's note n as a chain tail, extendChainInPlace matches
\* the withdrawal that spends existingNullifier of calculateWithdrawalContext(n)
\* and no withdrawal spending another nullifier of the context, and the change
\* note it appends has the coordinate (depositIndex, changeIndex + 1) at which
\* the context derived newNullifier and newSecret.
C36_DiscoveryAgreesWithContext ==
    contextCall.op = "calculateWithdrawalContext" /\ contextCall.accountKey = AccountKey =>
        LET n == contextCall.note
            result == contextCall.result[1]
            extended == extendChainInPlace(ChainEndingAt(n), SpendingPage(result.existingNullifier))
            appended == Last(extended.chain)
        IN /\ extended.withdrawalsMatched = 1
           /\ Len(extended.chain) = Len(ChainEndingAt(n)) + 1
           /\ extendChainInPlace(ChainEndingAt(n),
                                 SpendingPage(result.newNullifier)).withdrawalsMatched = 0
           /\ appended.depositIndex = n.depositIndex
           /\ appended.changeIndex = n.changeIndex + 1
           /\ result.newNullifier =
                  deriveChangeNullifier(AccountKey, appended.depositIndex, appended.changeIndex)
           /\ result.newSecret =
                  deriveChangeSecret(AccountKey, appended.depositIndex, appended.changeIndex)

\* The context of the account's change note was calculated.
C36_Witness ==
    /\ contextCall.op = "calculateWithdrawalContext"
    /\ contextCall.accountKey = AccountKey
    /\ contextCall.note.changeIndex = 1
    /\ contextCall.note.amount = Some(2)
    /\ contextCall.result # Null

(***************************************************************************)
(* Termination of discoverNotes.                                           *)
(***************************************************************************)
\* The passes through the while loop of extendChainInPlace that turned a
\* chain of `before` notes into `chain`: one per note appended, and the pass
\* that found no withdrawal unless the loop left on remaining <= 0.
ExtensionPasses(before, chain) ==
    (Len(chain) - before)
    + (IF Len(chain) > before /\ BigIntOf(Last(chain).amount) <= 0 THEN 0 ELSE 1)

\* The passes through the deposit-scan loop over the page, from state st.
RECURSIVE ScanPasses(_, _)
ScanPasses(st, pageActivities) ==
    LET next == ScanStep(st, pageActivities)
    IN IF next.found THEN 1 + ScanPasses(next, pageActivities) ELSE 1

\* The passes of the loops about to run are at most `most(page)`: the
\* extension of each live chain over the page to come, the deposit scan over
\* the page fetched, and the extension of the chain each scan pass builds.
LoopsWithin(most(_)) ==
    /\ pc = "fetching" =>
           \A n \in PageSizes(OffsetOf(cursor)) :
               LET items == SubSeq(stream, OffsetOf(cursor) + 1, OffsetOf(cursor) + n)
               IN \A i \in DOMAIN liveDeposits :
                      LET at == liveDeposits[i].chainIndex + 1
                      IN at \in DOMAIN notes =>
                             ExtensionPasses(Len(notes[at]),
                                             extendChainInPlace(notes[at], items).chain)
                                 <= most(items)
    /\ pc \in {"scan", "scanMatch"} =>
           /\ ScanPasses(CurrentState, activities) <= most(activities)
           /\ LET next == ScanStep(CurrentState, activities)
              IN next.found => ExtensionPasses(1, Last(next.notes)) <= most(activities)

AsManyAsActivities(page) == Len(page)

OneMoreThanActivities(page) == Len(page) + 1

\* No page is fetched after one that reported hasNextPage = false.
NoFetchAfterLastPage == [][pc = "storing" /\ pc' = "fetching" => hasNext']_vars

\* A run that was started ends: it returns, is cancelled or fails.
RunEnds == (pc \notin Ended) ~> (pc \in Ended)

C38_GenerateIsReadOnly ==
    [][depositCall' # depositCall =>
          /\ stored' = stored
          /\ recorded' = recorded
          /\ (/\ depositCall # Null
              /\ depositCall[1].options = depositCall'[1].options
              /\ depositCall[1].recorded = recorded) =>
                 /\ commitment'[1].depositIndex = commitment[1].depositIndex
                 /\ commitment'[1].precommitment = commitment[1].precommitment
          /\ depositCall'[1].options # Null =>
                 /\ depositCall'[1].providerCalls = 0
                 /\ commitment'[1].depositIndex = depositCall'[1].options[1]]_vars

\* Index 0 was recorded and a commitment was then generated at index 0 given
\* in the options.
C38_Witness ==
    /\ depositCall # Null
    /\ depositCall[1].options = Some(0)
    /\ depositCall[1].recorded = {0}
    /\ stored.lastUsedDepositIndex = 0

====
